---- MODULE Spec2Model ----
(***************************************************************************)
(* retroterm launcher: the controller-input state machine, the selection   *)
(* context and the settings dialog of Launcher (src/src/Preferences.js,    *)
(* which holds Preferences and Launcher) as one state machine.             *)
(*                                                                         *)
(* The launcher object is the record `launcher`; every handler of the      *)
(* source is an operator from launcher records to launcher records, so     *)
(* that a poll tick or a key event is one atomic action made of the calls  *)
(* the handler makes, in the order it makes them.                          *)
(*                                                                         *)
(* The blessed widgets are represented only by what the source reads back  *)
(* from them: romList is its kind of content, the entries it shows, its    *)
(* item count and its `selected` index (select() and setItems() keep the   *)
(* index inside the item range); the key handling that the list widget     *)
(* does by itself (keys: true) is not part of the source and not modelled. *)
(***************************************************************************)
EXTENDS Integers, Sequences, FiniteSets, TLC

VARIABLES
    launcher,   \* the Launcher object (fields of `this`, prefs.config, timers, children)
    now,        \* Date.now() in ms
    gamepad,    \* the snapshot navigator.getGamepads() gave to the last poll tick
    obs,        \* observation of the run: what the last step did (history only)
    scanner     \* a RomScanner at work: the tree it was given, the catalog it returned

vars == <<launcher, now, gamepad, obs, scanner>>

\* no RomScanner is under observation
NoScanner ==
    [tree |-> <<>>, roms |-> <<>>, systems |-> <<>>, systemRoms |-> <<>>,
     status |-> "idle"]

----------------------------------------------------------------------------
(* Bounds of the model *)

MaxTicksEdge == 5     \* poll ticks explored by the button specifications
MaxStarts == 2        \* start() runs explored: the first start and the resumes
MaxTicksRepeat == 25  \* poll ticks explored by the auto-repeat specification
MaxTicksNav == 4      \* poll ticks explored by the navigation specification
MaxKeysNav == 3       \* key events explored by the navigation specification
MaxScans == 2         \* scans in flight at the same time
MaxTicksModal == 3    \* poll ticks explored by the dialog specification
MaxKeysModal == 2     \* key events explored by the dialog specification
MaxRecentLen == 3     \* length of the recent lists a config file is drawn with
MaxRecentCap == 3     \* largest maxRecent a config file is drawn with
MaxAdds == 2          \* addRecentGame calls explored by the recent-list specification
MaxKeysDialog == 5    \* key events explored by the dialog-fields specification

----------------------------------------------------------------------------
(* Gamepad: standard-mapping button indices used by _handleGamepadInput *)

BtnA == 0
BtnB == 1
BtnX == 2
BtnY == 3
BtnLB == 4
BtnRB == 5
BtnStart == 9
DpadUp == 12
DpadDown == 13
DpadLeft == 14
DpadRight == 15

Buttons == {BtnA, BtnB, BtnX, BtnY, BtnLB, BtnRB, BtnStart,
            DpadUp, DpadDown, DpadLeft, DpadRight}

PollPeriod == 16       \* setInterval(..., 16)
InitialDelay == 300    \* heldWithRepeat: elapsed > 300
RepeatPeriod == 80     \* heldWithRepeat: % 80
AxisThreshold == 5     \* 0.5, axis values are in tenths
PageStep == 10         \* shoulder buttons: 10 single steps

Slots == {"up", "down", "left", "right", "lb", "rb"}

NoPad == [connected |-> FALSE, buttons |-> {}, ax |-> 0, ay |-> 0]

Pad(bs) == [connected |-> TRUE, buttons |-> bs, ax |-> 0, ay |-> 0]

----------------------------------------------------------------------------
(* The file system as RomScanner.scan() reports it: per directory, the     *)
(* catalog sorted by name.  Entries are numbered; the name order is the    *)
(* order of RomName.                                                       *)

RomSystem(r) ==
    CASE r = 1 -> "Game Boy"
      [] r \in {2, 3} -> "NES"
      [] r = 4 -> "SNES"
      [] OTHER -> "NES"

RomName(r) == r

\* the path of an entry; the entries found inside one ZIP file share its path
RomPath(r) == IF r \in {31, 32} THEN 131 ELSE 100 + r

DirExists(dir) == dir # "/missing"

ScanResult(dir) ==
    CASE dir = "/three" -> <<1, 2, 3, 4>>
      [] dir = "/one" -> <<2, 3>>
      [] dir = "/long" -> <<11, 12, 13, 14, 15, 16, 17, 18, 19, 20, 21, 22>>
      [] dir = "/zip" -> <<1, 4, 31, 32>>
      [] OTHER -> <<>>

SystemOrder == <<"Game Boy", "NES", "SNES">>

----------------------------------------------------------------------------
(* Small helpers *)

Range(seq) == {seq[i] : i \in DOMAIN seq}

Min(a, b) == IF a < b THEN a ELSE b

Max(a, b) == IF a > b THEN a ELSE b

\* JavaScript %: the sign of the result is the sign of the dividend
JsMod(a, n) == IF a >= 0 THEN a % n ELSE 0 - ((0 - a) % n)

RECURSIVE InsertByName(_, _)
InsertByName(sorted, r) ==
    IF sorted = <<>> THEN <<r>>
    ELSE IF RomName(r) < RomName(Head(sorted)) THEN <<r>> \o sorted
    ELSE <<Head(sorted)>> \o InsertByName(Tail(sorted), r)

\* Array.prototype.sort((a, b) => a.name.localeCompare(b.name)), stable
RECURSIVE SortByName(_)
SortByName(seq) ==
    IF seq = <<>> THEN <<>>
    ELSE InsertByName(SortByName(SubSeq(seq, 1, Len(seq) - 1)), seq[Len(seq)])

\* Object.keys(systemRoms).sort()
SortSystems(present) == SelectSeq(SystemOrder, LAMBDA x : x \in present)

----------------------------------------------------------------------------
(* JavaScript values that are null / undefined / an array *)

JsNull == [tag |-> "null", val |-> <<>>]

JsUndefined == [tag |-> "undefined", val |-> <<>>]

JsArray(seq) == [tag |-> "array", val |-> seq]

NoRom == 0

----------------------------------------------------------------------------
(* Preferences *)

SYMBOLS == <<"block", "half", "ascii", "ascii+block", "solid", "stipple",
             "quad", "sextant", "octant", "braille">>

COLORS == <<"true", "256", "16", "2">>

FIELDS == <<"roms", "symbols", "colors", "fgOnly", "dither", "contrast">>

IndexOf(seq, x) ==
    IF \E i \in DOMAIN seq : seq[i] = x
    THEN (CHOOSE i \in DOMAIN seq : seq[i] = x /\ \A j \in 1..(i - 1) : seq[j] # x) - 1
    ELSE 0 - 1

DefaultMaxRecent == 10

DefaultContrast == 5

DEFAULTS(dir) ==
    [romsDir |-> dir,
     recentGames |-> <<>>,
     maxRecent |-> DefaultMaxRecent,
     symbols |-> "ascii+block",
     colors |-> "256",
     fgOnly |-> TRUE,
     dither |-> FALSE,
     contrast |-> DefaultContrast]

\* mutant: the path is put in front without filtering it out of the list
AddRecentGameNoFilter(config, romPath) ==
    LET recent == <<romPath>> \o config.recentGames
    IN [config EXCEPT !.recentGames = SubSeq(recent, 1, Min(Len(recent), config.maxRecent))]

\* Preferences.addRecentGame
AddRecentGame(config, romPath) ==
    LET recent == <<romPath>> \o SelectSeq(config.recentGames, LAMBDA p : p # romPath)
    IN [config EXCEPT !.recentGames = SubSeq(recent, 1, Min(Len(recent), config.maxRecent))]

----------------------------------------------------------------------------
(* The list widget, as far as the source drives it *)

NewList == [kind |-> "empty", shown |-> <<>>, n |-> 0, selected |-> 0]

Clamp(i, n) == IF i < 0 THEN 0 ELSE IF i >= n THEN n - 1 ELSE i

\* romList.select(index)
ListSelect(rl, index) == [rl EXCEPT !.selected = Clamp(index, rl.n)]

\* romList.setItems(items): `shown` are the catalog entries among the items
ListSetItems(rl, kind, shown, n) ==
    [kind |-> kind, shown |-> shown, n |-> n, selected |-> Clamp(rl.selected, n)]

MsgLines == 5   \* items of the 'not found' / 'No ROMs found' messages

----------------------------------------------------------------------------
(* Launcher: constructor *)

ClosedDialog ==
    [set |-> FALSE, focusedField |-> "roms", romsInput |-> "",
     selectedSymbols |-> "", selectedColors |-> "",
     selectedFgOnly |-> FALSE, selectedDither |-> FALSE,
     selectedContrast |-> 0, attached |-> FALSE]

NewLauncher(dir) ==
    [prefs |-> DEFAULTS(dir),
     screen |-> "none",
     romList |-> NewList,
     roms |-> <<>>,
     sortedRoms |-> JsNull,
     systems |-> <<>>,
     systemRoms |-> [x \in {} |-> <<>>],
     currentSystemIndex |-> 0,
     currentView |-> "system",
     gamepadPollInterval |-> FALSE,
     settingsOpen |-> FALSE,
     settingsState |-> ClosedDialog,
     prevButtons |-> {},
     holdTime |-> [k \in Slots |-> 0],
     waitingForRelease |-> FALSE,
     \* run-time resources of the process
     proc |-> "new",
     intervals |-> 0,
     scans |-> <<>>,
     children |-> 0,
     args |-> <<>>,
     restarts |-> 0,
     started |-> 0,
     \* commands issued by the handler that is running
     cmds |-> <<>>]

Cmd(kind, btn, name) == [kind |-> kind, btn |-> btn, name |-> name]

Emit(s, kind, btn, name) == [s EXCEPT !.cmds = Append(@, Cmd(kind, btn, name))]

Issued(s, name) == \E c \in Range(s.cmds) : c.name = name

Alive(s) == s.proc = "run"

----------------------------------------------------------------------------
(* Launcher: selection context *)

\* _getSelectedRom(index): NoRom stands for null / undefined
GetSelectedRom(s, index) ==
    IF s.sortedRoms.tag = "array" /\ index + 1 \in DOMAIN s.sortedRoms.val
    THEN s.sortedRoms.val[index + 1]
    ELSE NoRom

\* _groupRomsBySystem
GroupRomsBySystem(s) ==
    LET present == {RomSystem(r) : r \in Range(s.roms)}
    IN [s EXCEPT
          !.systemRoms = [sys \in present |->
               SortByName(SelectSeq(s.roms, LAMBDA r : RomSystem(r) = sys))],
          !.systems = SortSystems(present)]

\* _showCurrentSystem: systems[currentSystemIndex] is undefined when the index
\* is outside the list; roms.map then throws a TypeError nobody catches
ShowCurrentSystem(s) ==
    IF ~Alive(s) THEN s
    ELSE LET v == [s EXCEPT !.currentView = "system"]
         IN IF Len(v.systems) = 0 THEN v
            ELSE IF v.currentSystemIndex + 1 \notin DOMAIN v.systems
            THEN [v EXCEPT !.sortedRoms = JsUndefined, !.proc = "crash"]
            ELSE LET roms == v.systemRoms[v.systems[v.currentSystemIndex + 1]]
                 IN [v EXCEPT
                       !.sortedRoms = JsArray(roms),
                       !.romList = ListSelect(ListSetItems(@, "roms", roms, Len(roms)), 0)]

\* mutant: the recent entries in the order of the catalog
ShowRecentRomsCatalogOrder(s) ==
    IF ~Alive(s) THEN s
    ELSE LET recentRoms == SelectSeq(s.roms,
                               LAMBDA r : RomPath(r) \in Range(s.prefs.recentGames))
         IN [s EXCEPT
               !.currentView = "recent",
               !.sortedRoms = JsArray(recentRoms),
               !.romList = ListSelect(
                   IF Len(recentRoms) = 0
                   THEN ListSetItems(@, "norecent", <<>>, 1)
                   ELSE ListSetItems(@, "recent", recentRoms, Len(recentRoms)), 0)]

\* _showRecentRoms
ShowRecentRoms(s) ==
    IF ~Alive(s) THEN s
    ELSE LET found == SelectSeq(s.prefs.recentGames,
                          LAMBDA p : \E i \in DOMAIN s.roms : RomPath(s.roms[i]) = p)
             first(p) == s.roms[CHOOSE i \in DOMAIN s.roms :
                            /\ RomPath(s.roms[i]) = p
                            /\ \A j \in 1..(i - 1) : RomPath(s.roms[j]) # p]
             recentRoms == [i \in DOMAIN found |-> first(found[i])]
         IN [s EXCEPT
               !.currentView = "recent",
               !.sortedRoms = JsArray(recentRoms),
               !.romList = ListSelect(
                   IF Len(recentRoms) = 0
                   THEN ListSetItems(@, "norecent", <<>>, 1)
                   ELSE ListSetItems(@, "recent", recentRoms, Len(recentRoms)), 0)]

\* _navigateUp
NavigateUp(s) ==
    IF ~Alive(s) THEN s
    ELSE LET index == s.romList.selected - 1
         IN IF index >= 0 THEN [s EXCEPT !.romList = ListSelect(@, index)] ELSE s

\* _navigateDown
NavigateDown(s) ==
    IF ~Alive(s) THEN s
    ELSE LET index == s.romList.selected + 1
             max == IF s.sortedRoms.tag = "array" THEN Len(s.sortedRoms.val) ELSE 0
         IN IF index < max THEN [s EXCEPT !.romList = ListSelect(@, index)] ELSE s

PrevIndex(i, n) == IF i - 1 < 0 THEN n - 1 ELSE i - 1

\* mutant: the index stops at the last system
NextIndexNoWrap(i, n) == IF i + 1 >= n THEN i ELSE i + 1

NextIndex(i, n) == IF i + 1 >= n THEN 0 ELSE i + 1

\* _navigatePrevSystem
NavigatePrevSystem(s) ==
    IF ~Alive(s) \/ s.currentView # "system" \/ Len(s.systems) = 0 THEN s
    ELSE ShowCurrentSystem(
           [s EXCEPT !.currentSystemIndex = PrevIndex(@, Len(s.systems))])

\* mutant: _navigateNextSystem without its test of the view
NavigateNextSystemAnyView(s) ==
    IF ~Alive(s) \/ Len(s.systems) = 0 THEN s
    ELSE ShowCurrentSystem(
           [s EXCEPT !.currentSystemIndex = NextIndex(@, Len(s.systems))])

\* _navigateNextSystem
NavigateNextSystem(s) ==
    IF ~Alive(s) \/ s.currentView # "system" \/ Len(s.systems) = 0 THEN s
    ELSE ShowCurrentSystem(
           [s EXCEPT !.currentSystemIndex = NextIndex(@, Len(s.systems))])

\* for (let i = 0; i < k; i++) this._navigateUp()
RECURSIVE NavigateUpTimes(_, _)
NavigateUpTimes(k, s) == IF k = 0 THEN s ELSE NavigateUpTimes(k - 1, NavigateUp(s))

\* for (let i = 0; i < k; i++) this._navigateDown()
RECURSIVE NavigateDownTimes(_, _)
NavigateDownTimes(k, s) == IF k = 0 THEN s ELSE NavigateDownTimes(k - 1, NavigateDown(s))

----------------------------------------------------------------------------
(* Launcher: catalog loading *)

\* _loadRoms up to its await: the scan that was started is in flight
LoadRoms(s) ==
    IF ~Alive(s) THEN s
    ELSE LET romsDir == s.prefs.romsDir
         IN IF ~DirExists(romsDir)
            THEN [s EXCEPT !.romList = ListSetItems(@, "notfound", <<>>, MsgLines),
                           !.roms = <<>>]
            ELSE [s EXCEPT !.romList = ListSetItems(@, "scanning", <<>>, 1),
                           !.scans = Append(@, romsDir)]

\* _loadRoms after its await, for the scan of romsDir
LoadRomsResume(s, romsDir) ==
    LET v == [s EXCEPT !.roms = ScanResult(romsDir)]
    IN IF Len(v.roms) = 0
       THEN [v EXCEPT !.romList = ListSetItems(@, "noroms", <<>>, MsgLines)]
       ELSE ShowCurrentSystem(GroupRomsBySystem(v))

----------------------------------------------------------------------------
(* Launcher: controller polling, start and launch *)

\* mutant: polling starts without arming the gate
StartControllerPollingUngated(s) ==
    [s EXCEPT !.prevButtons = {},
              !.holdTime = [k \in Slots |-> 0],
              !.waitingForRelease = FALSE,
              !.gamepadPollInterval = TRUE,
              !.intervals = @ + 1]

\* _startControllerPolling: the previous interval handle is overwritten
StartControllerPolling(s) ==
    [s EXCEPT !.prevButtons = {},
              !.holdTime = [k \in Slots |-> 0],
              !.waitingForRelease = TRUE,
              !.gamepadPollInterval = TRUE,
              !.intervals = @ + 1]

\* _stopControllerPolling
StopControllerPolling(s) ==
    IF s.gamepadPollInterval
    THEN [s EXCEPT !.gamepadPollInterval = FALSE, !.intervals = @ - 1]
    ELSE s

\* start(): a new screen and a new list widget; the dialog of a destroyed
\* screen is not part of the new one
StartLauncher(s) ==
    StartControllerPolling(
        LoadRoms([s EXCEPT !.proc = "run",
                           !.screen = "up",
                           !.romList = NewList,
                           !.settingsState.attached = FALSE,
                           !.started = @ + 1]))

\* _launchGame(rom)
\* one element of the argument list handed to spawn
Arg(opt, val) == [opt |-> opt, val |-> val]

\* contrast values are counted in eighteenths: 0.5 is 9, 1.5 / 9 is 3, 1.0 is 18
ContrastUnit == 18

\* const contrastSlider = this.prefs.get('contrast') || 5
FallbackSlider == 5

ContrastSlider(config) == IF config.contrast = 0 THEN FallbackSlider ELSE config.contrast

\* const contrastValue = 0.5 + (contrastSlider - 1) * (1.5 / 9)
ContrastValue(slider) == (ContrastUnit \div 2) + (slider - 1) * ((3 * ContrastUnit) \div (2 * 9))

\* contrastValue.toFixed(2), in hundredths
ToFixed2(v) == (v * 200 + ContrastUnit) \div (2 * ContrastUnit)

\* the args array of _launchGame
LaunchArgs(config, rom) ==
    <<Arg("rom", RomPath(rom)),
      Arg("--symbols", config.symbols),
      Arg("--colors", config.colors)>>
        \o (IF config.fgOnly THEN <<Arg("--fg-only", "")>> ELSE <<>>)
        \o (IF config.dither THEN <<Arg("--dither", "")>> ELSE <<>>)
        \o (IF ContrastValue(ContrastSlider(config)) # ContrastUnit
            THEN <<Arg("--contrast", ToFixed2(ContrastValue(ContrastSlider(config))))>>
            ELSE <<>>)

LaunchGame(s, rom) ==
    IF ~Alive(s) THEN s
    ELSE LET a == [s EXCEPT !.prefs = AddRecentGame(@, RomPath(rom))]
             b == StopControllerPolling(a)
         IN [b EXCEPT !.screen = "destroyed",
                      !.args = LaunchArgs(a.prefs, rom),
                      !.children = @ + 1]

\* the body of the Enter / A / Start handlers; `by` is the button, -1 for Enter
LaunchSelected(s, by) ==
    LET rom == GetSelectedRom(s, s.romList.selected)
    IN IF Alive(s) /\ rom # NoRom
       THEN LaunchGame(Emit(s, "launch", by, "spawn"), rom)
       ELSE s

----------------------------------------------------------------------------
(* Launcher: settings dialog (_showSettings and its closures) *)

ShowSettings(s) ==
    IF ~Alive(s) THEN s
    ELSE [s EXCEPT
            !.settingsOpen = TRUE,
            !.settingsState =
                [set |-> TRUE, focusedField |-> "roms",
                 romsInput |-> s.prefs.romsDir,
                 selectedSymbols |-> s.prefs.symbols,
                 selectedColors |-> s.prefs.colors,
                 selectedFgOnly |-> s.prefs.fgOnly,
                 selectedDither |-> s.prefs.dither,
                 selectedContrast |-> s.prefs.contrast,
                 attached |-> (s.screen = "up")]]

Cycle(list, value, delta) ==
    list[JsMod(IndexOf(list, value) + delta + Len(list), Len(list)) + 1]

\* toggleSymbols(delta)
ToggleSymbols(s, delta) ==
    [s EXCEPT !.settingsState.selectedSymbols = Cycle(SYMBOLS, @, delta)]

\* toggleColors(delta)
ToggleColors(s, delta) ==
    [s EXCEPT !.settingsState.selectedColors = Cycle(COLORS, @, delta)]

\* toggleFgOnly
ToggleFgOnly(s) == [s EXCEPT !.settingsState.selectedFgOnly = ~@]

\* toggleDither
ToggleDither(s) == [s EXCEPT !.settingsState.selectedDither = ~@]

MinContrast == 1

MaxContrast == 10

\* mutant: the slider is not held inside its range
AdjustContrastUnclamped(s, delta) ==
    [s EXCEPT !.settingsState.selectedContrast = @ + delta]

\* adjustContrast(delta)
AdjustContrast(s, delta) ==
    [s EXCEPT !.settingsState.selectedContrast =
                  Max(MinContrast, Min(MaxContrast, @ + delta))]

\* mutant: the focus stops at the last field
FocusNextFieldNoWrap(s) ==
    [s EXCEPT !.settingsState.focusedField =
        FIELDS[Min(IndexOf(FIELDS, @) + 1, Len(FIELDS) - 1) + 1]]

\* focusNextField
FocusNextField(s) ==
    [s EXCEPT !.settingsState.focusedField =
        FIELDS[((IndexOf(FIELDS, @) + 1) % Len(FIELDS)) + 1]]

\* focusPrevField
FocusPrevField(s) ==
    [s EXCEPT !.settingsState.focusedField =
        FIELDS[((IndexOf(FIELDS, @) - 1 + Len(FIELDS)) % Len(FIELDS)) + 1]]

\* handleLeftRight(delta)
HandleLeftRight(s, delta) ==
    LET f == s.settingsState.focusedField
    IN CASE f = "symbols" -> ToggleSymbols(s, delta)
         [] f = "colors" -> ToggleColors(s, delta)
         [] f = "fgOnly" -> ToggleFgOnly(s)
         [] f = "dither" -> ToggleDither(s)
         [] f = "contrast" -> AdjustContrast(s, delta)
         [] OTHER -> s

\* handleToggle
HandleToggle(s) ==
    LET f == s.settingsState.focusedField
    IN CASE f = "symbols" -> ToggleSymbols(s, 1)
         [] f = "colors" -> ToggleColors(s, 1)
         [] f = "fgOnly" -> ToggleFgOnly(s)
         [] f = "dither" -> ToggleDither(s)
         [] OTHER -> s

\* String.prototype.trim, on the texts the model types
Trim(text) ==
    CASE text = " /three " -> "/three"
      [] text = "  " -> ""
      [] OTHER -> text

\* mutant: closing the form writes the choices of the dialog to the preferences
CloseFormKeepingEdits(s) ==
    [s EXCEPT !.prefs.symbols = s.settingsState.selectedSymbols,
              !.prefs.colors = s.settingsState.selectedColors,
              !.prefs.fgOnly = s.settingsState.selectedFgOnly,
              !.prefs.dither = s.settingsState.selectedDither,
              !.prefs.contrast = s.settingsState.selectedContrast,
              !.settingsOpen = FALSE,
              !.settingsState = ClosedDialog]

\* closeForm
CloseForm(s) ==
    [s EXCEPT !.settingsOpen = FALSE, !.settingsState = ClosedDialog]

\* mutant: the values are written and the form closed, the catalog not reloaded
SaveAndCloseNoReload(s) ==
    LET d == s.settingsState
        p == [s.prefs EXCEPT
                !.romsDir = IF Trim(d.romsInput) # "" THEN Trim(d.romsInput) ELSE @,
                !.symbols = d.selectedSymbols,
                !.colors = d.selectedColors,
                !.fgOnly = d.selectedFgOnly,
                !.dither = d.selectedDither,
                !.contrast = d.selectedContrast]
    IN [s EXCEPT !.prefs = p, !.settingsOpen = FALSE, !.settingsState = ClosedDialog]

\* saveAndClose
SaveAndClose(s) ==
    LET d == s.settingsState
        p == [s.prefs EXCEPT
                !.romsDir = IF Trim(d.romsInput) # "" THEN Trim(d.romsInput) ELSE @,
                !.symbols = d.selectedSymbols,
                !.colors = d.selectedColors,
                !.fgOnly = d.selectedFgOnly,
                !.dither = d.selectedDither,
                !.contrast = d.selectedContrast]
    IN LoadRoms([s EXCEPT !.prefs = p,
                          !.settingsOpen = FALSE,
                          !.settingsState = ClosedDialog])

----------------------------------------------------------------------------
(* Launcher: _handleGamepadInput *)

IsPressed(snap, idx) == idx \in snap.buttons

\* pressed(idx): the value it returns ...
PressEdge(s, snap, idx) == IsPressed(snap, idx) /\ idx \notin s.prevButtons

\* ... and its effect, prev[idx] = isPressed
Remember(s, snap, idx) ==
    [s EXCEPT !.prevButtons = IF IsPressed(snap, idx) THEN @ \cup {idx} ELSE @ \ {idx}]

\* the order in which the settings branch asks pressed(idx)
DialogButtons == <<BtnB, BtnA, BtnStart, DpadUp, DpadDown, DpadLeft, DpadRight, BtnX>>

DialogCommandName(b) ==
    CASE b = BtnB -> "cancel"
      [] b \in {BtnA, BtnStart} -> "save"
      [] b = DpadUp -> "focusPrev"
      [] b = DpadDown -> "focusNext"
      [] b = DpadLeft -> "adjust-"
      [] b = DpadRight -> "adjust+"
      [] OTHER -> "toggle"

DialogCommand(s, b) ==
    CASE b = BtnB -> CloseForm(s)
      [] b \in {BtnA, BtnStart} -> SaveAndClose(s)
      [] b = DpadUp -> FocusPrevField(s)
      [] b = DpadDown -> FocusNextField(s)
      [] b = DpadLeft -> HandleLeftRight(s, 0 - 1)
      [] b = DpadRight -> HandleLeftRight(s, 1)
      [] OTHER -> HandleToggle(s)

\* settings branch: the first press edge found runs its command and returns,
\* the buttons after it are not asked and keep their old prev[idx]
RECURSIVE SettingsBranch(_, _, _)
SettingsBranch(s, snap, i) ==
    IF i > Len(DialogButtons) THEN s
    ELSE LET b == DialogButtons[i]
             m == Remember(s, snap, b)
         IN IF PressEdge(s, snap, b)
            THEN DialogCommand(Emit(m, "btn", b, DialogCommandName(b)), b)
            ELSE SettingsBranch(m, snap, i + 1)

\* heldWithRepeat(key, isActive): the value it returns ...
HeldWithRepeat(h, t, isActive) ==
    /\ isActive
    /\ \/ h = 0
       \/ LET elapsed == t - h
          IN /\ elapsed > InitialDelay
             /\ \/ JsMod(elapsed - InitialDelay, RepeatPeriod)
                     < JsMod(elapsed - InitialDelay - PollPeriod, RepeatPeriod)
                \/ elapsed - InitialDelay < PollPeriod

\* ... and what it leaves in hold[key]
HoldAfter(h, t, isActive) == IF isActive THEN (IF h = 0 THEN t ELSE h) ELSE 0

\* mutant: the stick counts from the threshold on
SlotActiveFromThreshold(snap, key) ==
    CASE key = "up" -> IsPressed(snap, DpadUp) \/ snap.ay <= 0 - AxisThreshold
      [] key = "down" -> IsPressed(snap, DpadDown) \/ snap.ay >= AxisThreshold
      [] key = "left" -> IsPressed(snap, DpadLeft) \/ snap.ax <= 0 - AxisThreshold
      [] key = "right" -> IsPressed(snap, DpadRight) \/ snap.ax >= AxisThreshold
      [] key = "lb" -> IsPressed(snap, BtnLB)
      [] OTHER -> IsPressed(snap, BtnRB)

SlotActive(snap, key) ==
    CASE key = "up" -> IsPressed(snap, DpadUp) \/ snap.ay < 0 - AxisThreshold
      [] key = "down" -> IsPressed(snap, DpadDown) \/ snap.ay > AxisThreshold
      [] key = "left" -> IsPressed(snap, DpadLeft) \/ snap.ax < 0 - AxisThreshold
      [] key = "right" -> IsPressed(snap, DpadRight) \/ snap.ax > AxisThreshold
      [] key = "lb" -> IsPressed(snap, BtnLB)
      [] OTHER -> IsPressed(snap, BtnRB)

SlotCommand(s, key) ==
    CASE key = "up" -> NavigateUp(s)
      [] key = "down" -> NavigateDown(s)
      [] key = "left" -> NavigatePrevSystem(s)
      [] key = "right" -> NavigateNextSystem(s)
      [] key = "lb" -> NavigateUpTimes(PageStep, s)
      [] OTHER -> NavigateDownTimes(PageStep, s)

SlotOrder == <<"up", "down", "left", "right", "lb", "rb">>

\* if (heldWithRepeat(key, active)) command()
SlotStep(s, snap, t, key) ==
    LET active == SlotActive(snap, key)
        fire == HeldWithRepeat(s.holdTime[key], t, active)
        h == [s EXCEPT !.holdTime[key] = HoldAfter(@, t, active)]
    IN IF fire THEN SlotCommand(Emit(h, "slot", 0 - 1, key), key) ELSE h

RECURSIVE SlotSteps(_, _, _, _)
SlotSteps(s, snap, t, i) ==
    IF i > Len(SlotOrder) THEN s
    ELSE SlotSteps(SlotStep(s, snap, t, SlotOrder[i]), snap, t, i + 1)

BrowseButtons == <<BtnA, BtnX, BtnY, BtnStart>>

BrowseCommandName(b) ==
    CASE b \in {BtnA, BtnStart} -> "confirm"
      [] b = BtnX -> "recent"
      [] OTHER -> "settings"

BrowseCommand(s, b) ==
    CASE b \in {BtnA, BtnStart} -> LaunchSelected(s, b)
      [] b = BtnX -> ShowRecentRoms(s)
      [] OTHER -> ShowSettings(s)

\* if (pressed(idx)) command(): every one of the four is asked, none returns
ButtonStep(s, snap, b) ==
    LET m == Remember(s, snap, b)
    IN IF PressEdge(s, snap, b)
       THEN BrowseCommand(Emit(m, "btn", b, BrowseCommandName(b)), b)
       ELSE m

RECURSIVE ButtonSteps(_, _, _)
ButtonSteps(s, snap, i) ==
    IF i > Len(BrowseButtons) THEN s
    ELSE ButtonSteps(ButtonStep(s, snap, BrowseButtons[i]), snap, i + 1)

\* mutant: _handleGamepadInput without its first line, an absent device read as
\* a device with nothing pressed
HandleGamepadInputNoAbsenceCheck(s, snap, t) ==
    IF s.settingsOpen /\ s.settingsState.set
    THEN SettingsBranch(s, snap, 1)
    ELSE ButtonSteps(SlotSteps(s, snap, t, 1), snap, 1)

HandleGamepadInput(s, snap, t) ==
    IF ~snap.connected THEN s
    ELSE IF s.settingsOpen /\ s.settingsState.set
    THEN SettingsBranch(s, snap, 1)
    ELSE ButtonSteps(SlotSteps(s, snap, t, 1), snap, 1)

\* mutant: the gate is looked at but the tick is handled all the same
PollCallbackNoReturn(s, snap, t) ==
    HandleGamepadInput(
        IF s.waitingForRelease /\ snap.connected /\ snap.buttons = {}
        THEN [s EXCEPT !.waitingForRelease = FALSE] ELSE s, snap, t)

\* the setInterval callback of _startControllerPolling
PollCallback(s, snap, t) ==
    IF s.waitingForRelease /\ snap.connected
    THEN IF snap.buttons = {} THEN [s EXCEPT !.waitingForRelease = FALSE] ELSE s
    ELSE HandleGamepadInput(s, snap, t)

----------------------------------------------------------------------------
(* Launcher: keyboard (_setupKeys, and the key handlers of _showSettings) *)

\* the bodies of the screen.key / romList.key handlers of _setupKeys
BrowseKeyBody(s, k) ==
    IF ~Alive(s) THEN s
    ELSE CASE k = "q" -> [Emit(s, "key", 0 - 1, "quit") EXCEPT !.proc = "exit"]
           [] k = "enter" -> LaunchSelected(Emit(s, "key", 0 - 1, "confirm"), 0 - 1)
           [] k = "a" -> ShowCurrentSystem(Emit(s, "key", 0 - 1, "system"))
           [] k = "left" -> NavigatePrevSystem(Emit(s, "key", 0 - 1, "prevSystem"))
           [] k = "right" -> NavigateNextSystem(Emit(s, "key", 0 - 1, "nextSystem"))
           [] k = "r" -> ShowRecentRoms(Emit(s, "key", 0 - 1, "recent"))
           [] k = "s" -> ShowSettings(Emit(s, "key", 0 - 1, "settings"))
           [] k = "f5" -> LoadRoms(Emit(s, "key", 0 - 1, "refresh"))
           [] OTHER -> s

\* mutant: the handlers of _setupKeys without their settings-open guard
BrowseKeyUnguarded(s, k) == BrowseKeyBody(s, k)

\* the handlers of _setupKeys: each starts with  if (this._settingsOpen) return;
BrowseKey(s, k) == IF s.settingsOpen THEN s ELSE BrowseKeyBody(s, k)

\* screenKeyHandler without its test of the focused field
ScreenKeyHandlerUnguarded(s, k) ==
    IF ~s.settingsOpen THEN s
    ELSE CASE k = "escape" -> CloseForm(Emit(s, "screen", 0 - 1, "cancel"))
           [] k = "enter" -> SaveAndClose(Emit(s, "screen", 0 - 1, "save"))
           [] k \in {"tab", "down"} -> FocusNextField(Emit(s, "screen", 0 - 1, "focusNext"))
           [] k = "up" -> FocusPrevField(Emit(s, "screen", 0 - 1, "focusPrev"))
           [] k = "space" -> HandleToggle(Emit(s, "screen", 0 - 1, "toggle"))
           [] k = "left" -> HandleLeftRight(Emit(s, "screen", 0 - 1, "adjust-"), 0 - 1)
           [] k = "right" -> HandleLeftRight(Emit(s, "screen", 0 - 1, "adjust+"), 1)
           [] OTHER -> s

\* screenKeyHandler: the screen's keypress listener of the dialog
ScreenKeyHandler(s, k) ==
    IF ~s.settingsOpen THEN s
    ELSE IF s.settingsState.focusedField = "roms" THEN s
    ELSE CASE k = "escape" -> CloseForm(Emit(s, "screen", 0 - 1, "cancel"))
           [] k = "enter" -> SaveAndClose(Emit(s, "screen", 0 - 1, "save"))
           [] k \in {"tab", "down"} -> FocusNextField(Emit(s, "screen", 0 - 1, "focusNext"))
           [] k = "up" -> FocusPrevField(Emit(s, "screen", 0 - 1, "focusPrev"))
           [] k = "space" -> HandleToggle(Emit(s, "screen", 0 - 1, "toggle"))
           [] k = "left" -> HandleLeftRight(Emit(s, "screen", 0 - 1, "adjust-"), 0 - 1)
           [] k = "right" -> HandleLeftRight(Emit(s, "screen", 0 - 1, "adjust+"), 1)
           [] OTHER -> s

\* romsInput.key(...): the textbox's own key handlers
TextboxKey(s, k) ==
    IF ~s.settingsOpen THEN s
    ELSE CASE k = "escape" -> CloseForm(Emit(s, "textbox", 0 - 1, "cancel"))
           [] k \in {"tab", "down"} -> FocusNextField(Emit(s, "textbox", 0 - 1, "focusNext"))
           [] k = "up" -> FocusPrevField(Emit(s, "textbox", 0 - 1, "focusPrev"))
           [] k = "enter" -> SaveAndClose(Emit(s, "textbox", 0 - 1, "save"))
           [] OTHER -> s

\* a key while the dialog is up: the screen's listener runs, and the textbox's
\* handlers too when the textbox is the focused widget the key is delivered to
DialogKey(s, k) ==
    IF ~s.settingsOpen \/ ~s.settingsState.attached \/ ~Alive(s) THEN s
    ELSE IF s.settingsState.focusedField = "roms"
    THEN TextboxKey(ScreenKeyHandler(s, k), k)
    ELSE ScreenKeyHandler(s, k)

\* one key event: the handlers registered for the key, on the mode the event finds
KeyEvent(s, k) == IF s.settingsOpen THEN DialogKey(BrowseKey(s, k), k) ELSE BrowseKey(s, k)

\* characters typed into the focused textbox end as its value
TextInput(s, text) ==
    IF s.settingsOpen /\ s.settingsState.attached /\ s.settingsState.focusedField = "roms"
    THEN [Emit(s, "key", 0 - 1, "type") EXCEPT !.settingsState.romsInput = text]
    ELSE s

----------------------------------------------------------------------------
(* Observation of a run (history variables, no program state) *)

InDialog(s) == s.settingsOpen /\ s.settingsState.set

NoHold == [ticks |-> 0, count |-> 0]

\* what the run has seen of the dialog: the preferences at the moment it was
\* last opened, the field that had the focus when it was last closed, how
\* many times it has been opened (up to 2), and whether its last closing was a
\* cancel that discarded edits
NoDialogObs == [opened |-> DEFAULTS(""), leftFocus |-> "", count |-> 0, discarded |-> FALSE]

\* the fields of the dialog d show the values of the preferences
DialogShows(d, prefs) ==
    /\ d.romsInput = prefs.romsDir
    /\ d.selectedSymbols = prefs.symbols
    /\ d.selectedColors = prefs.colors
    /\ d.selectedFgOnly = prefs.fgOnly
    /\ d.selectedDither = prefs.dither
    /\ d.selectedContrast = prefs.contrast

DialogObs(s0, s1) ==
    [opened |-> IF ~s0.settingsOpen /\ s1.settingsOpen
                THEN s0.prefs ELSE obs.dialog.opened,
     leftFocus |-> IF s0.settingsOpen /\ ~s1.settingsOpen
                   THEN s0.settingsState.focusedField ELSE obs.dialog.leftFocus,
     count |-> IF ~s0.settingsOpen /\ s1.settingsOpen /\ obs.dialog.count < 2
               THEN obs.dialog.count + 1 ELSE obs.dialog.count,
     discarded |-> IF s0.settingsOpen /\ ~s1.settingsOpen
                   THEN Issued(s1, "cancel") /\ ~DialogShows(s0.settingsState, s0.prefs)
                   ELSE obs.dialog.discarded]

InitObs ==
    [step |-> "init",
     mode |-> "none",
     keys |-> 0,
     counting |-> 0,
     lastButtons |-> {},
     heldLaunch |-> {},
     hold |-> [k \in Slots |-> NoHold],
     dialog |-> NoDialogObs]

Launches(s) == {c \in Range(s.cmds) : c.kind = "launch"}

CountSlot(s, key) == Cardinality({i \in DOMAIN s.cmds :
                                     s.cmds[i].kind = "slot" /\ s.cmds[i].name = key})

TickMode(s, snap) ==
    IF ~snap.connected THEN "nopad"
    ELSE IF s.waitingForRelease THEN "gated"
    ELSE IF InDialog(s) THEN "dialog"
    ELSE "browse"

\* the hold of a slot as the samples show it: ticks = consecutive browse ticks
\* 16 ms apart on which the signal was active (-1: the hold began unobserved),
\* count = commands the slot issued on them
HoldObs(h, mode, active, fired) ==
    IF mode = "browse"
    THEN IF ~active THEN NoHold
         ELSE IF h.ticks < 0 THEN h
         ELSE [ticks |-> h.ticks + 1, count |-> h.count + fired]
    ELSE IF mode # "nopad" /\ ~active THEN NoHold
    ELSE [ticks |-> 0 - 1, count |-> 0]

TickObs(s0, snap, s1) ==
    LET mode == TickMode(s0, snap)
    IN [step |-> "tick",
        mode |-> mode,
        keys |-> obs.keys,
        counting |-> obs.counting,
        lastButtons |-> IF gamepad.connected THEN gamepad.buttons ELSE obs.lastButtons,
        heldLaunch |-> {b \in obs.heldLaunch : ~snap.connected \/ b \in snap.buttons}
                         \cup {c.btn : c \in {x \in Launches(s1) : x.btn >= 0}},
        hold |-> [k \in Slots |->
                    HoldObs(obs.hold[k], mode, SlotActive(snap, k), CountSlot(s1, k))],
        dialog |-> DialogObs(s0, s1)]

\* a step that is no poll tick: polling that stops or restarts ends the
\* observed holds
StepObs(step, s1) ==
    [obs EXCEPT !.step = step,
                !.mode = "none",
                !.keys = IF step \in {"key", "type", "add"} THEN @ + obs.counting ELSE @,
                !.dialog = DialogObs(launcher, s1),
                !.hold = IF s1.intervals = launcher.intervals /\ s1.started = launcher.started
                         THEN @
                         ELSE [k \in Slots |-> IF @[k].ticks = 0 THEN NoHold
                                               ELSE [ticks |-> 0 - 1, count |-> 0]]]

----------------------------------------------------------------------------
(* Actions *)

Running == launcher.proc = "run"

\* the first start() of the process
Start ==
    /\ launcher.proc = "new"
    /\ LET s1 == StartLauncher([launcher EXCEPT !.cmds = <<>>])
       IN launcher' = s1 /\ obs' = StepObs("start", s1)
    /\ UNCHANGED <<now, gamepad, scanner>>

\* one firing of a poll interval, with the snapshot the device API returns
PollTick(samples, maxTicks) ==
    /\ Running
    /\ launcher.intervals > 0
    /\ now < PollPeriod * (maxTicks + 1)
    /\ \E snap \in samples :
         LET t == now + PollPeriod
             s0 == [launcher EXCEPT !.cmds = <<>>]
             s1 == PollCallback(s0, snap, t)
         IN /\ launcher' = s1
            /\ now' = t
            /\ gamepad' = snap
            /\ UNCHANGED scanner
            /\ obs' = TickObs(s0, snap, s1)

\* one key event of the terminal
KeyPress(keys, maxKeys) ==
    /\ Running
    /\ launcher.screen = "up"
    /\ obs.counting = 1 => obs.keys < maxKeys
    /\ Len(launcher.scans) < MaxScans
    /\ \E k \in keys :
         LET s1 == KeyEvent([launcher EXCEPT !.cmds = <<>>], k)
         IN launcher' = s1 /\ obs' = StepObs("key", s1)
    /\ UNCHANGED <<now, gamepad, scanner>>

\* text typed into the ROMs directory textbox
TypeText(texts, maxKeys) ==
    /\ Running
    /\ launcher.screen = "up"
    /\ obs.counting = 1 => obs.keys < maxKeys
    /\ InDialog(launcher)
    /\ launcher.settingsState.attached
    /\ launcher.settingsState.focusedField = "roms"
    /\ \E text \in texts :
         LET s1 == TextInput([launcher EXCEPT !.cmds = <<>>], text)
         IN launcher' = s1 /\ obs' = StepObs("type", s1)
    /\ UNCHANGED <<now, gamepad, scanner>>

RemoveAt(seq, i) == SubSeq(seq, 1, i - 1) \o SubSeq(seq, i + 1, Len(seq))

\* a scan in flight finishes and _loadRoms continues after its await
ScanComplete ==
    /\ Running
    /\ \E i \in DOMAIN launcher.scans :
         LET s0 == [launcher EXCEPT !.cmds = <<>>, !.scans = RemoveAt(@, i)]
             s1 == LoadRomsResume(s0, launcher.scans[i])
         IN launcher' = s1 /\ obs' = StepObs("scan", s1)
    /\ UNCHANGED <<now, gamepad, scanner>>

\* the emulator exits: child.on('close') arms the 500 ms timer
ChildClose ==
    /\ Running
    /\ launcher.children > 0
    /\ LET s1 == [launcher EXCEPT !.cmds = <<>>, !.children = @ - 1, !.restarts = @ + 1]
       IN launcher' = s1 /\ obs' = StepObs("close", s1)
    /\ UNCHANGED <<now, gamepad, scanner>>

\* setTimeout(() => this.start(), 500) fires
\* the child could not be started: its 'error' event finds no listener (only
\* 'close' is listened to), the emitter throws and the process ends with the
\* uncaught exception, the screen already destroyed by _launchGame
ChildError ==
    /\ Running
    /\ launcher.children > 0
    /\ LET s1 == [launcher EXCEPT !.cmds = <<>>, !.children = @ - 1, !.proc = "crash"]
       IN launcher' = s1 /\ obs' = StepObs("error", s1)
    /\ UNCHANGED <<now, gamepad, scanner>>

RestartTimer ==
    /\ Running
    /\ launcher.restarts > 0
    /\ launcher.started < MaxStarts
    /\ LET s1 == StartLauncher([launcher EXCEPT !.cmds = <<>>, !.restarts = @ - 1])
       IN launcher' = s1 /\ obs' = StepObs("restart", s1)
    /\ UNCHANGED <<now, gamepad, scanner>>

\* counting = 1: the specification bounds the number of key events
InitIn(dirs, counting) ==
    /\ \E dir \in dirs : launcher = NewLauncher(dir)
    /\ now = PollPeriod
    /\ gamepad = NoPad
    /\ scanner = NoScanner
    /\ obs = [InitObs EXCEPT !.counting = counting]

----------------------------------------------------------------------------
(* Specification of the button handling: A, B, Y and Start, one catalog *)

ButtonSamples ==
    {NoPad} \cup {Pad(bs) : bs \in {x \in SUBSET {BtnA, BtnB, BtnY, BtnStart} :
                                       Cardinality(x) <= 2}}

InitButtons == InitIn({"/one"}, 0)

TickButtons == PollTick(ButtonSamples, MaxTicksEdge)

NextButtons ==
    \/ Start
    \/ TickButtons
    \/ ScanComplete
    \/ ChildClose
    \/ RestartTimer

SpecButtons == InitButtons /\ [][NextButtons]_vars

----------------------------------------------------------------------------
(* Specification of the auto-repeat: one direction, the dialog opened and   *)
(* closed with Y and B                                                      *)

RepeatSamples ==
    {Pad({}), Pad({DpadDown}), Pad({DpadDown, BtnY}), Pad({BtnB})}

InitRepeat == InitIn({"/one"}, 0)

TickRepeat == PollTick(RepeatSamples, MaxTicksRepeat)

NextRepeat ==
    \/ Start
    \/ TickRepeat
    \/ ScanComplete

SpecRepeat == InitRepeat /\ [][NextRepeat]_vars

----------------------------------------------------------------------------
(* Specification of the catalog reloads: keyboard only; the ROMs directory  *)
(* is changed in the dialog, games are launched with Enter                  *)

CatalogKeys == {"left", "right", "a", "r", "s", "enter", "f5", "escape"}

CatalogDirs == {"/three", "/one", "/empty", "/missing"}

InitCatalog == InitIn({"/three", "/missing"}, 0)

KeyCatalog == KeyPress(CatalogKeys, 0)

TypeCatalog == TypeText(CatalogDirs, 0)

NextCatalog ==
    \/ Start
    \/ KeyCatalog
    \/ TypeCatalog
    \/ ScanComplete
    \/ ChildClose
    \/ RestartTimer

SpecCatalog == InitCatalog /\ [][NextCatalog]_vars

----------------------------------------------------------------------------
(* Specification of the navigation: highlight and system moves by gamepad   *)
(* and keyboard, with reloads that find a shorter catalog, none or no       *)
(* directory                                                                *)

NavSamples ==
    {Pad({})} \cup {Pad({b}) : b \in {DpadUp, DpadDown, BtnLB, BtnRB}}

NavKeys == {"s", "enter", "f5"}

NavDirs == {"/empty", "/missing"}

InitNav == InitIn({"/three", "/long"}, 1)

TickNav == PollTick(NavSamples, MaxTicksNav)

KeyNav == KeyPress(NavKeys, MaxKeysNav)

TypeNav == TypeText(NavDirs, MaxKeysNav)

NextNav ==
    \/ Start
    \/ TickNav
    \/ KeyNav
    \/ TypeNav
    \/ ScanComplete

SpecNav == InitNav /\ [][NextNav]_vars

----------------------------------------------------------------------------
(* Specification of the settings dialog: gamepad and keyboard input while   *)
(* the dialog is closed, open, and left open by a launch in the same tick   *)

ModalSamples ==
    {Pad({b}) : b \in {BtnA, BtnB, BtnY, DpadDown, BtnRB}}
        \cup {Pad({}), Pad({BtnY, BtnStart})}

ModalKeys == {"q", "enter", "r", "s", "f5", "escape", "tab", "space"}

ModalDirs == {"/one"}

InitModal == InitIn({"/three"}, 1)

TickModal == PollTick(ModalSamples, MaxTicksModal)

KeyModal == KeyPress(ModalKeys, MaxKeysModal)

TypeModal == TypeText(ModalDirs, MaxKeysModal)

NextModal ==
    \/ Start
    \/ TickModal
    \/ KeyModal
    \/ TypeModal
    \/ ScanComplete
    \/ ChildClose
    \/ RestartTimer

SpecModal == InitModal /\ [][NextModal]_vars

----------------------------------------------------------------------------
(* Specification of the recent list: Preferences as its constructor loads   *)
(* it from a config file, and calls of addRecentGame                        *)

RecentPaths == {1, 2, 3}

\* the sequences over S of length at most n
SeqsUpTo(S, n) == UNION {[1..k -> S] : k \in 0..n}

\* Preferences.load: { ...DEFAULTS, ...JSON.parse(data) }
LoadedConfig(dir, recent, maxRecent) ==
    [DEFAULTS(dir) EXCEPT !.recentGames = recent, !.maxRecent = maxRecent]

InitRecent ==
    /\ \E recent \in SeqsUpTo(RecentPaths, MaxRecentLen), m \in 1..MaxRecentCap :
         launcher = [NewLauncher("/one") EXCEPT !.prefs = LoadedConfig("/one", recent, m)]
    /\ now = PollPeriod
    /\ gamepad = NoPad
    /\ scanner = NoScanner
    /\ obs = [InitObs EXCEPT !.counting = 1]

\* prefs.addRecentGame(romPath); the command records the path in its btn field
AddRecent ==
    /\ obs.keys < MaxAdds
    /\ \E path \in RecentPaths :
         LET s0 == [launcher EXCEPT !.cmds = <<Cmd("add", path, "addRecentGame")>>]
             s1 == [s0 EXCEPT !.prefs = AddRecentGame(@, path)]
         IN launcher' = s1 /\ obs' = StepObs("add", s1)
    /\ UNCHANGED <<now, gamepad, scanner>>

NextRecent ==
    \/ AddRecent

SpecRecent == InitRecent /\ [][NextRecent]_vars

----------------------------------------------------------------------------
(* Specification of the recent view: a config file with any recent list,    *)
(* a catalog with loose files or with a ZIP of two ROMs, keyboard only      *)

StoredPaths == {101, 104, 131, 199}

RecentViewKeys == {"r", "a", "right", "f5"}

InitRecentView ==
    /\ \E recent \in SeqsUpTo(StoredPaths, MaxRecentLen), dir \in {"/three", "/zip"} :
         launcher = [NewLauncher(dir) EXCEPT
                        !.prefs = LoadedConfig(dir, recent, DefaultMaxRecent)]
    /\ now = PollPeriod
    /\ gamepad = NoPad
    /\ scanner = NoScanner
    /\ obs = InitObs

KeyRecentView == KeyPress(RecentViewKeys, 0)

NextRecentView ==
    \/ Start
    \/ KeyRecentView
    \/ ScanComplete

SpecRecentView == InitRecentView /\ [][NextRecentView]_vars

----------------------------------------------------------------------------
(* Specification of the dialog fields: a config file with any contrast and  *)
(* symbols, the dialog driven by the keyboard                               *)

DialogKeys == {"s", "tab", "up", "space", "left", "right", "escape", "enter"}

DialogTexts == {" /three ", "  ", "/missing"}

InitDialog ==
    /\ \E contrast \in {MinContrast, DefaultContrast, MaxContrast},
          symbols \in {"block", "braille"} :
         launcher = [NewLauncher("/one") EXCEPT
                        !.prefs = [DEFAULTS("/one") EXCEPT !.contrast = contrast,
                                                           !.symbols = symbols]]
    /\ now = PollPeriod
    /\ gamepad = NoPad
    /\ scanner = NoScanner
    /\ obs = [InitObs EXCEPT !.counting = 1]

KeyDialog == KeyPress(DialogKeys, MaxKeysDialog)

TypeDialog == TypeText(DialogTexts, MaxKeysDialog)

NextDialog ==
    \/ Start
    \/ KeyDialog
    \/ TypeDialog
    \/ ScanComplete

SpecDialog == InitDialog /\ [][NextDialog]_vars

----------------------------------------------------------------------------
(* Claims about the press-edge detection and the await-release gate *)

EdgeButtonsOf(mode) ==
    IF mode = "dialog" THEN Range(DialogButtons) ELSE Range(BrowseButtons)

Commanded(b) == \E c \in Range(launcher.cmds) : c.kind = "btn" /\ c.btn = b

\* C1: on every poll tick that handles input, an edge-triggered button of the
\* current mode issues its command exactly when it is pressed in this sample
\* and was not pressed in the sample before: one command per press, at the
\* press edge, none while the button stays down.
C1_EdgeTriggered ==
    (obs.step = "tick" /\ obs.mode \in {"browse", "dialog"}) =>
        \A b \in EdgeButtonsOf(obs.mode) :
            Commanded(b) <=> (b \in gamepad.buttons /\ b \notin obs.lastButtons)

PadCommands(s) == {c \in Range(s.cmds) : c.kind \in {"btn", "slot", "launch"}}

\* C2: every start of the polling arms the await-release gate; a poll tick
\* that finds the gate armed issues no gamepad command; the gate is disarmed
\* only by a poll tick whose sample has every button of the controller released.
C2_AwaitReleaseGate ==
    [][/\ obs'.step \in {"start", "restart"} => launcher'.waitingForRelease
       /\ (launcher.waitingForRelease /\ obs'.step = "tick") => PadCommands(launcher') = {}
       /\ (launcher.waitingForRelease /\ ~launcher'.waitingForRelease) =>
              (obs'.step = "tick" /\ gamepad'.connected /\ gamepad'.buttons = {})
      ]_vars

\* C2 witness: the launcher has resumed after an emulator run, a button is
\* down, and the poll tick was swallowed by the armed gate.
C2_Witness ==
    /\ launcher.started >= 2
    /\ obs.step = "tick"
    /\ obs.mode = "gated"
    /\ gamepad.buttons # {}
    /\ launcher.waitingForRelease
    /\ launcher.cmds = <<>>

\* C3: a launch button that started a game and has been down in every sample
\* since then does not start a game again.
C3_NoRelaunchWhileHeld ==
    [][\A c \in Launches(launcher') : c.btn >= 0 => c.btn \notin obs.heldLaunch]_vars

\* C3 witness: the launcher has resumed and polls while the button that
\* launched is still down.
C3_Witness ==
    /\ launcher.started >= 2
    /\ obs.step = "tick"
    /\ obs.heldLaunch # {}
    /\ obs.heldLaunch \subseteq gamepad.buttons
    /\ launcher.children = 0

----------------------------------------------------------------------------
(* Claims about the auto-repeat *)

\* ms between the first active tick of an observed hold and its last one
HeldFor(h) == PollPeriod * (h.ticks - 1)

\* C4: a slot whose signal has been active on every poll tick since its first
\* active tick has issued one command on that first tick, no other during the
\* 300 ms after it, and at the last tick at or before 300 ms + N * 80 ms it
\* has issued 1 + N commands.
C4_RepeatCount ==
    \A k \in Slots :
        LET h == obs.hold[k]
        IN h.ticks >= 1 =>
             /\ h.count >= 1
             /\ HeldFor(h) <= InitialDelay => h.count = 1
             /\ \A N \in 0..MaxTicksRepeat :
                    (/\ HeldFor(h) <= InitialDelay + N * RepeatPeriod
                     /\ InitialDelay + N * RepeatPeriod < HeldFor(h) + PollPeriod)
                    => h.count = 1 + N

----------------------------------------------------------------------------
(* Claims about the selection context and the catalog reloads *)

\* the entry a confirm command would launch
CurrentEntry == GetSelectedRom(launcher, launcher.romList.selected)

Browsing == Running /\ launcher.screen = "up"

\* C6: while the launcher shows its list, the current entry is null exactly
\* when the displayed list has no entries, and otherwise it is the displayed
\* entry at the highlight index.
C6_CurrentEntryIsDisplayed ==
    Browsing =>
        CurrentEntry = IF launcher.romList.shown = <<>>
                       THEN NoRom
                       ELSE launcher.romList.shown[launcher.romList.selected + 1]

SystemCount == Len(launcher.systems)

\* C7: whenever the system list is non-empty the current system index is in
\* [0, systemCount), and in system view the active list is the group of the
\* system at that index.
C7_SystemIndexInRange ==
    SystemCount > 0 =>
        /\ launcher.currentSystemIndex \in 0..(SystemCount - 1)
        /\ (launcher.currentView = "system" /\ launcher.sortedRoms.tag # "null") =>
               launcher.sortedRoms =
                   JsArray(launcher.systemRoms[
                               launcher.systems[launcher.currentSystemIndex + 1]])

\* C8: when a scan has completed with zero ROMs, the catalog and the system
\* list are empty, there is no entry to launch, and the launcher runs on.
C8_EmptyReload ==
    (obs.step = "scan" /\ launcher.roms = <<>>) =>
        /\ Running
        /\ launcher.systems = <<>>
        /\ CurrentEntry = NoRom

----------------------------------------------------------------------------
(* Claims about the settings dialog *)

DialogCommandNames ==
    {"cancel", "save", "focusPrev", "focusNext", "adjust-", "adjust+", "toggle", "type"}

----------------------------------------------------------------------------
(* Claims about the highlight and the system moves *)

Highlight == launcher.romList.selected

\* the length _navigateDown compares with
SortedLength == IF launcher.sortedRoms.tag = "array" THEN Len(launcher.sortedRoms.val) ELSE 0

\* the highlight a move leaves, by the length n of the list it moves in
MovedDown(n) == IF Highlight + 1 < n THEN Highlight + 1 ELSE Highlight

MovedUp == IF Highlight >= 1 THEN Highlight - 1 ELSE Highlight

PagedDown(n) == Max(Highlight, Min(Highlight + PageStep, n - 1))

PagedUp == Max(Highlight - PageStep, 0)

MovesClamp(n) ==
    /\ NavigateDown(launcher).romList.selected = MovedDown(n)
    /\ NavigateUp(launcher).romList.selected = MovedUp
    /\ NavigateDownTimes(PageStep, launcher).romList.selected = PagedDown(n)
    /\ NavigateUpTimes(PageStep, launcher).romList.selected = PagedUp

\* C9: with listLength the number of entries of the displayed list, the
\* highlight is in [0, listLength-1]; a single step and a 10-step page move it
\* by clamping, so a move at a boundary is a no-op; with an empty list the
\* highlight is 0 and the current entry is null.
C9_HighlightInRange ==
    Browsing =>
        LET n == Len(launcher.romList.shown)
        IN /\ Highlight \in 0..Max(n - 1, 0)
           /\ MovesClamp(n)
           /\ n = 0 => (Highlight = 0 /\ CurrentEntry = NoRom)

\* the same with the length the source uses, that of sortedRoms, which after
\* a reload that replaced the display by a message is the list shown before:
\* the moves stay in its range, and clamp whenever the display is that list
HighlightWithinSortedRoms ==
    Browsing =>
        /\ Highlight \in 0..Max(SortedLength - 1, 0)
        /\ SortedLength = 0 => (Highlight = 0 /\ CurrentEntry = NoRom)
        /\ launcher.romList.kind \in {"roms", "recent"} => MovesClamp(SortedLength)
        /\ \A k \in {1, PageStep} :
               /\ NavigateDownTimes(k, launcher).romList.selected
                      \in Highlight..Max(SortedLength - 1, 0)
               /\ NavigateUpTimes(k, launcher).romList.selected \in 0..Highlight

\* k moves to the next system, k moves to the previous system
RECURSIVE NextSystemTimes(_, _)
NextSystemTimes(k, s) == IF k = 0 THEN s ELSE NextSystemTimes(k - 1, NavigateNextSystem(s))

RECURSIVE PrevSystemTimes(_, _)
PrevSystemTimes(k, s) == IF k = 0 THEN s ELSE PrevSystemTimes(k - 1, NavigatePrevSystem(s))

\* C10: in system view with at least one system, systemCount moves to the
\* next system, and systemCount moves to the previous one, end at the index
\* they started from, and a move to the next system followed by a move to the
\* previous one ends there too.
C10_SystemWrap ==
    (Browsing /\ launcher.currentView = "system" /\ SystemCount >= 1) =>
        /\ NextSystemTimes(SystemCount, launcher).currentSystemIndex
               = launcher.currentSystemIndex
        /\ PrevSystemTimes(SystemCount, launcher).currentSystemIndex
               = launcher.currentSystemIndex
        /\ NavigatePrevSystem(NavigateNextSystem(launcher)).currentSystemIndex
               = launcher.currentSystemIndex
        /\ NavigateNextSystem(NavigatePrevSystem(launcher)).currentSystemIndex
               = launcher.currentSystemIndex

\* C10 witness: three systems, and the key for the next system has just moved
\* the index from the last system to the first.
C10_Witness ==
    /\ Browsing
    /\ obs.step = "key"
    /\ Issued(launcher, "nextSystem")
    /\ launcher.currentView = "system"
    /\ SystemCount = 3
    /\ launcher.currentSystemIndex = 0

----------------------------------------------------------------------------
(* Claims about the recent list *)

Occurrences(seq, x) == Cardinality({i \in DOMAIN seq : seq[i] = x})

NoDuplicates(seq) == \A i, j \in DOMAIN seq : seq[i] = seq[j] => i = j

Without(seq, x) == SelectSeq(seq, LAMBDA y : y # x)

\* C11: after addRecentGame(p), for any list and any maxRecent >= 1: p is at
\* index 0 and occurs once, the other paths follow in their previous relative
\* order, the length is at most maxRecent, and a list without duplicates
\* stays without duplicates.
C11_AddRecentGame ==
    [][obs'.step = "add" =>
          LET p == launcher'.cmds[1].btn
              old == launcher.prefs.recentGames
              new == launcher'.prefs.recentGames
              rest == Without(old, p)
          IN /\ Len(new) >= 1
             /\ Len(new) <= launcher.prefs.maxRecent
             /\ new[1] = p
             /\ Occurrences(new, p) = 1
             /\ Len(new) = Min(1 + Len(rest), launcher.prefs.maxRecent)
             /\ Tail(new) = SubSeq(rest, 1, Len(new) - 1)
             /\ NoDuplicates(old) => NoDuplicates(new)
             /\ launcher'.prefs.maxRecent = launcher.prefs.maxRecent
      ]_vars

\* C11 witness: path 2 has been added again to a full list of three, and is
\* now in front of 1 and 3.
C11_Witness ==
    /\ obs.step = "add"
    /\ launcher.cmds[1].btn = 2
    /\ launcher.prefs.maxRecent = 3
    /\ launcher.prefs.recentGames = <<2, 1, 3>>

\* the first entry of the catalog with the path
EntryWithPath(catalog, path) ==
    catalog[CHOOSE i \in DOMAIN catalog :
               /\ RomPath(catalog[i]) = path
               /\ \A j \in 1..(i - 1) : RomPath(catalog[j]) # path]

\* C12: the recent command sets the view to recent and the highlight to 0,
\* and the active list is the stored recent paths, in stored order, each
\* replaced by the catalog entry with that path, the paths without a catalog
\* entry left out.
C12_ShowRecentView ==
    [][(obs'.step = "key" /\ Issued(launcher', "recent")) =>
          LET catalog == launcher.roms
              kept == SelectSeq(launcher.prefs.recentGames,
                          LAMBDA path : \E r \in Range(catalog) : RomPath(r) = path)
              list == launcher'.sortedRoms
          IN /\ launcher'.currentView = "recent"
             /\ launcher'.romList.selected = 0
             /\ list.tag = "array"
             /\ Len(list.val) = Len(kept)
             /\ \A i \in DOMAIN kept : list.val[i] = EntryWithPath(catalog, kept[i])
             /\ launcher'.romList.shown = list.val
      ]_vars

\* C12 witness: the stored list names the last catalog entry, a path the
\* catalog does not have, and the first entry; the recent view shows the two
\* entries in stored order.
C12_Witness ==
    /\ obs.step = "key"
    /\ Issued(launcher, "recent")
    /\ launcher.prefs.recentGames = <<104, 199, 101>>
    /\ launcher.sortedRoms = JsArray(<<4, 1>>)
    /\ launcher.currentView = "recent"

----------------------------------------------------------------------------
(* Claims about the fields of the settings dialog *)

Focus(s) == s.settingsState.focusedField

FieldIndex(s) == IndexOf(FIELDS, Focus(s))

RECURSIVE FocusNextTimes(_, _)
FocusNextTimes(k, s) == IF k = 0 THEN s ELSE FocusNextTimes(k - 1, FocusNextField(s))

\* C13: the focus of an open dialog is one field of the field list; focusNext
\* and focusPrev move it by one position with wrap-around, six focusNext are
\* the identity and focusPrev undoes focusNext; a dialog that opens has the
\* focus on the first field, wherever the focus of the dialog before it was.
C13_Focus ==
    [][/\ InDialog(launcher') =>
              /\ Cardinality({i \in DOMAIN FIELDS : FIELDS[i] = Focus(launcher')}) = 1
              /\ FieldIndex(FocusNextField(launcher'))
                     = (FieldIndex(launcher') + 1) % Len(FIELDS)
              /\ FieldIndex(FocusPrevField(launcher'))
                     = (FieldIndex(launcher') + Len(FIELDS) - 1) % Len(FIELDS)
              /\ FocusNextTimes(Len(FIELDS), launcher') = launcher'
              /\ FocusPrevField(FocusNextField(launcher')) = launcher'
              /\ FocusNextField(FocusPrevField(launcher')) = launcher'
       /\ (InDialog(launcher) /\ Issued(launcher', "focusNext")) =>
              (InDialog(launcher') /\ Focus(launcher') = Focus(FocusNextField(launcher)))
       /\ (InDialog(launcher) /\ Issued(launcher', "focusPrev")) =>
              (InDialog(launcher') /\ Focus(launcher') = Focus(FocusPrevField(launcher)))
       /\ (~launcher.settingsOpen /\ launcher'.settingsOpen) =>
              Focus(launcher') = FIELDS[1]
      ]_vars

\* C13 witness: a second dialog has just been opened, the dialog before it
\* was closed with the focus on the last field, and the focus is on the first.
C13_Witness ==
    /\ obs.step = "key"
    /\ Issued(launcher, "settings")
    /\ obs.dialog.count = 2
    /\ obs.dialog.leftFocus = "contrast"
    /\ InDialog(launcher)
    /\ Focus(launcher) = "roms"

\* the dialog state after adjust(delta), by the type of the focused field
Adjusted(d, delta) ==
    CASE d.focusedField = "contrast" ->
           [d EXCEPT !.selectedContrast =
               IF @ + delta \in MinContrast..MaxContrast THEN @ + delta ELSE @]
      [] d.focusedField = "symbols" ->
           [d EXCEPT !.selectedSymbols =
               SYMBOLS[((IndexOf(SYMBOLS, @) + delta + Len(SYMBOLS)) % Len(SYMBOLS)) + 1]]
      [] d.focusedField = "colors" ->
           [d EXCEPT !.selectedColors =
               COLORS[((IndexOf(COLORS, @) + delta + Len(COLORS)) % Len(COLORS)) + 1]]
      [] d.focusedField = "fgOnly" -> [d EXCEPT !.selectedFgOnly = ~@]
      [] d.focusedField = "dither" -> [d EXCEPT !.selectedDither = ~@]
      [] OTHER -> d

\* C14: in an open dialog the values are inside their domains, and
\* adjust(+1) and adjust(-1) change the focused field only: the contrast by
\* one, unchanged at a bound of 1..10; symbols and colors to the next or
\* previous choice with wrap-around; fgOnly and dither negated; nothing on
\* the text field.  The adjust commands of the input do exactly that.
C14_Adjust ==
    [][/\ InDialog(launcher') =>
              /\ launcher'.settingsState.selectedContrast \in MinContrast..MaxContrast
              /\ launcher'.settingsState.selectedSymbols \in Range(SYMBOLS)
              /\ launcher'.settingsState.selectedColors \in Range(COLORS)
              /\ \A delta \in {0 - 1, 1} :
                     HandleLeftRight(launcher', delta) =
                         [launcher' EXCEPT !.settingsState = Adjusted(@, delta)]
       /\ (InDialog(launcher) /\ Issued(launcher', "adjust+")) =>
              launcher'.settingsState = Adjusted(launcher.settingsState, 1)
       /\ (InDialog(launcher) /\ Issued(launcher', "adjust-")) =>
              launcher'.settingsState = Adjusted(launcher.settingsState, 0 - 1)
      ]_vars

\* C14 witness: the dialog was opened with the contrast at 10, the focus went
\* to the slider, and adjust(+1) has left the value at 10.
C14_Witness ==
    /\ obs.step = "key"
    /\ obs.keys = 3
    /\ Issued(launcher, "adjust+")
    /\ Focus(launcher) = "contrast"
    /\ launcher.prefs.contrast = MaxContrast
    /\ launcher.settingsState.selectedContrast = MaxContrast

\* C15: cancel closes the dialog and leaves every preference as it was when
\* the dialog was opened, whatever was edited in between; it starts no scan
\* and leaves catalog and list alone; a dialog that opens shows the values of
\* the preferences.
C15_Cancel ==
    [][/\ (InDialog(launcher) /\ Issued(launcher', "cancel")) =>
              /\ launcher'.prefs = obs.dialog.opened
              /\ launcher'.prefs = launcher.prefs
              /\ ~launcher'.settingsOpen
              /\ ~InDialog(launcher')
              /\ launcher'.scans = launcher.scans
              /\ launcher'.roms = launcher.roms
              /\ launcher'.sortedRoms = launcher.sortedRoms
              /\ launcher'.romList = launcher.romList
       /\ (~launcher.settingsOpen /\ launcher'.settingsOpen) =>
              /\ launcher'.prefs = launcher.prefs
              /\ DialogShows(launcher'.settingsState, launcher'.prefs)
      ]_vars

\* C15 witness: a dialog whose edits were discarded by cancel has been
\* opened again and shows the preferences.
C15_Witness ==
    /\ obs.step = "key"
    /\ Issued(launcher, "settings")
    /\ obs.dialog.discarded
    /\ obs.dialog.count = 2
    /\ InDialog(launcher)
    /\ DialogShows(launcher.settingsState, launcher.prefs)

\* the step is a commit of the open dialog
Commits == InDialog(launcher) /\ Issued(launcher', "save")

\* the commit has closed the dialog and started the reload of the catalog
ClosedAndReloading ==
    /\ ~launcher'.settingsOpen
    /\ ~InDialog(launcher')
    /\ IF DirExists(launcher'.prefs.romsDir)
       THEN /\ launcher'.scans = Append(launcher.scans, launcher'.prefs.romsDir)
            /\ launcher'.romList.kind = "scanning"
       ELSE /\ launcher'.scans = launcher.scans
            /\ launcher'.romList.kind = "notfound"
            /\ launcher'.roms = <<>>

\* C16: after a commit every preference of the dialog equals what its field
\* showed, the dialog is closed and the catalog reload has been started.
C16_CommitWritesAll ==
    [][Commits =>
          /\ DialogShows(launcher.settingsState, launcher'.prefs)
          /\ ClosedAndReloading
      ]_vars

\* C16 as the source has it: symbols, colors, fgOnly, dither and contrast
\* equal what their fields showed; romsDir is the text of the directory field
\* with the white space around it removed, and keeps its previous value when
\* nothing is left of the text; the recent list is untouched; the dialog is
\* closed and the catalog reload has been started.
C16_CommitAmended ==
    [][Commits =>
          LET d == launcher.settingsState
              old == launcher.prefs
              new == launcher'.prefs
          IN /\ new.symbols = d.selectedSymbols
             /\ new.colors = d.selectedColors
             /\ new.fgOnly = d.selectedFgOnly
             /\ new.dither = d.selectedDither
             /\ new.contrast = d.selectedContrast
             /\ new.romsDir = IF Trim(d.romsInput) = "" THEN old.romsDir
                              ELSE Trim(d.romsInput)
             /\ new.recentGames = old.recentGames
             /\ new.maxRecent = old.maxRecent
             /\ ClosedAndReloading
      ]_vars

\* C16 witness: " /three " was typed into the directory field and committed:
\* romsDir is "/three" and its scan is the one started last.
C16_Witness ==
    /\ obs.step = "key"
    /\ Issued(launcher, "save")
    /\ launcher.prefs.romsDir = "/three"
    /\ launcher.scans # <<>>
    /\ launcher.scans[Len(launcher.scans)] = "/three"
    /\ ~launcher.settingsOpen

----------------------------------------------------------------------------
(* C17: the directory field has the input focus *)

TextFocused ==
    /\ InDialog(launcher)
    /\ launcher.settingsState.attached
    /\ Alive(launcher)
    /\ Focus(launcher) = "roms"

----------------------------------------------------------------------------
(* C18: the emulator cannot be started *)

MaxTicksSpawn == 3

MaxKeysSpawn == 2

SpawnSamples == {Pad({}), Pad({BtnA})}

SpawnKeys == {"enter", "down", "r"}

InitSpawn == InitIn({"/three"}, 1)

TickSpawn == PollTick(SpawnSamples, MaxTicksSpawn)

KeySpawn == KeyPress(SpawnKeys, MaxKeysSpawn)

NextSpawn ==
    \/ Start
    \/ TickSpawn
    \/ KeySpawn
    \/ ScanComplete
    \/ ChildClose
    \/ ChildError
    \/ RestartTimer

SpecSpawn == InitSpawn /\ [][NextSpawn]_vars

\* C18: when the emulator child process fails to start, the launcher remains
\* usable: the process lives, and its screen and its input polling are up again
\* or their restart is under way, so that the failure can be shown and further
\* commands are accepted.
C18_SpawnFailureSurvived ==
    obs.step = "error" =>
        /\ Alive(launcher)
        /\ \/ launcher.screen = "up" /\ launcher.intervals > 0
           \/ launcher.restarts > 0

----------------------------------------------------------------------------
(* C19: the --contrast argument *)

MaxKeysArgs == 2

ArgsKeys == {"enter", "down"}

\* any contrast a configuration file can hold in the slider's range, and 0
InitArgs ==
    /\ \E contrast \in 0..MaxContrast, fgOnly \in BOOLEAN, dither \in BOOLEAN :
         launcher = [NewLauncher("/three") EXCEPT
                        !.prefs = [DEFAULTS("/three") EXCEPT !.contrast = contrast,
                                                             !.fgOnly = fgOnly,
                                                             !.dither = dither]]
    /\ now = PollPeriod
    /\ gamepad = NoPad
    /\ scanner = NoScanner
    /\ obs = [InitObs EXCEPT !.counting = 1]

KeyArgs == KeyPress(ArgsKeys, MaxKeysArgs)

NextArgs ==
    \/ Start
    \/ KeyArgs
    \/ ScanComplete
    \/ ChildClose
    \/ RestartTimer

SpecArgs == InitArgs /\ [][NextArgs]_vars

HasOpt(args, opt) == \E i \in DOMAIN args : args[i].opt = opt

Spawns == launcher'.children > launcher.children

\* C19: the argument list of a launch contains --contrast exactly when the
\* contrast slider is not at its neutral value 5: at 5 (the default) the
\* argument is not passed, at every other value of 1..10 it is.
C19_ContrastOnlyOffNeutral ==
    [][Spawns =>
          (HasOpt(launcher'.args, "--contrast")
              <=> ContrastSlider(launcher.prefs) # DefaultContrast)
      ]_vars

----------------------------------------------------------------------------
(* C20: poll ticks without a device *)

MaxTicksAbsent == 5

AbsentSamples == {NoPad, Pad({}), Pad({BtnY}), Pad({BtnX, DpadDown})}

InitAbsent == InitIn({"/three"}, 0)

TickAbsent == PollTick(AbsentSamples, MaxTicksAbsent)

NextAbsent ==
    \/ Start
    \/ TickAbsent
    \/ ScanComplete

SpecAbsent == InitAbsent /\ [][NextAbsent]_vars

\* C20: a poll tick on which no input device is connected ends normally, emits
\* no command and changes nothing of the launcher: the previous button states,
\* the hold timers, the await-release gate, the selection, the views and the
\* dialog are what they were; this being so for every such tick, it is so for
\* any number of them in a row.
C20_AbsentDeviceTick ==
    [][(obs'.step = "tick" /\ ~gamepad'.connected) =>
          /\ launcher'.cmds = <<>>
          /\ launcher'.proc = launcher.proc
          /\ launcher'.prevButtons = launcher.prevButtons
          /\ launcher'.holdTime = launcher.holdTime
          /\ launcher'.waitingForRelease = launcher.waitingForRelease
          /\ launcher' = [launcher EXCEPT !.cmds = <<>>]
      ]_vars

\* C20 witness: the device went away while X and the d-pad were remembered as
\* held, and came to a second tick without a device: the button memory and the
\* running hold timer are still there.
C20_Witness ==
    /\ obs.step = "tick"
    /\ obs.mode = "nopad"
    /\ ~gamepad.connected
    /\ BtnX \in launcher.prevButtons
    /\ launcher.holdTime["down"] # 0
    /\ now >= launcher.holdTime["down"] + 2 * PollPeriod
    /\ ~launcher.waitingForRelease
    /\ launcher.cmds = <<>>

----------------------------------------------------------------------------
(* C21: B on the recent-games view *)

MaxTicksBack == 5

BackSamples == {Pad({}), Pad({BtnX}), Pad({BtnB}), Pad({DpadDown})}

InitBack ==
    /\ \E recent \in {<<>>, <<101>>, <<103, 101>>} :
         launcher = [NewLauncher("/three") EXCEPT
                        !.prefs = LoadedConfig("/three", recent, DefaultMaxRecent)]
    /\ now = PollPeriod
    /\ gamepad = NoPad
    /\ scanner = NoScanner
    /\ obs = InitObs

TickBack == PollTick(BackSamples, MaxTicksBack)

NextBack ==
    \/ Start
    \/ TickBack
    \/ ScanComplete

SpecBack == InitBack /\ [][NextBack]_vars

\* C21: in browsing mode, a press of gamepad button B while the recent-games
\* view is shown returns the launcher to the system view.
C21_BackToSystemView ==
    [][(/\ obs'.step = "tick"
        /\ obs'.mode = "browse"
        /\ launcher.currentView = "recent"
        /\ PressEdge(launcher, gamepad', BtnB))
          => launcher'.currentView = "system"
      ]_vars

----------------------------------------------------------------------------
(* C22: Preferences.load and the documented defaults *)

\* the configuration file: absent (or unreadable, or not JSON), or an object
\* with some of the keys
NoFile == [exists |-> FALSE, json |-> <<>>]

ConfigKeys == {"recentGames", "maxRecent", "symbols", "colors", "fgOnly", "dither", "contrast"}

\* { ...DEFAULTS, ...JSON.parse(data) }
Spread(defaults, json) ==
    [k \in DOMAIN defaults \cup DOMAIN json |->
        IF k \in DOMAIN json THEN json[k] ELSE defaults[k]]

\* Preferences.load on the configuration the constructor has set up
Load(config, dir, file) ==
    IF file.exists THEN Spread(DEFAULTS(dir), file.json) ELSE config

\* the defaults as the README's configuration section gives them
DocumentedDefaults ==
    [recentGames |-> <<>>, maxRecent |-> DefaultMaxRecent, symbols |-> "block",
     colors |-> "256", fgOnly |-> TRUE, dither |-> FALSE, contrast |-> DefaultContrast]

\* the state between  this.config = { ...DEFAULTS }  and  this.load()
InitPrefs ==
    /\ launcher = NewLauncher("/three")
    /\ now = PollPeriod
    /\ gamepad = NoPad
    /\ scanner = NoScanner
    /\ obs = InitObs

\* this.load(), the file being any of the files of the sample
LoadPrefs ==
    /\ obs.step = "init"
    /\ \E present \in BOOLEAN, keys \in SUBSET ConfigKeys,
          symbols \in {"block", "braille"}, contrast \in {MinContrast, MaxContrast} :
         LET json == [k \in keys |->
                        CASE k = "recentGames" -> <<101>>
                          [] k = "maxRecent" -> MaxRecentCap
                          [] k = "symbols" -> symbols
                          [] k = "colors" -> "16"
                          [] k = "fgOnly" -> FALSE
                          [] k = "dither" -> TRUE
                          [] OTHER -> contrast]
              file == IF present THEN [exists |-> TRUE, json |-> json] ELSE NoFile
              s1 == [launcher EXCEPT !.cmds = <<Cmd("load", file, "load")>>,
                                     !.prefs = Load(@, "/three", file)]
         IN launcher' = s1 /\ obs' = StepObs("load", s1)
    /\ UNCHANGED <<now, gamepad, scanner>>

NextPrefs ==
    \/ LoadPrefs

SpecPrefs == InitPrefs /\ [][NextPrefs]_vars

\* C22: after load, get(key) returns, for every key, the value the file gives
\* it when the file exists and has the key, and otherwise the documented
\* default of the key (symbols 'block', colors '256', fgOnly true, dither
\* false, contrast 5, maxRecent 10, recentGames empty).
C22_DocumentedDefaults ==
    [][obs'.step = "load" =>
          LET file == launcher'.cmds[1].btn
          IN \A k \in ConfigKeys :
                launcher'.prefs[k] = IF file.exists /\ k \in DOMAIN file.json
                                     THEN file.json[k]
                                     ELSE DocumentedDefaults[k]
      ]_vars

----------------------------------------------------------------------------
(* RomScanner (src/network.md).  File names, extensions and system names   *)
(* are sequences of one-character strings, so that extname, basename,      *)
(* toLowerCase, startsWith and the comparisons of sort are computed.  A    *)
(* path is the sequence of its components.                                 *)

UpperCase == <<"A", "B", "C", "D", "E", "F", "G", "H", "I", "J", "K", "L", "M",
               "N", "O", "P", "Q", "R", "S", "T", "U", "V", "W", "X", "Y", "Z">>

LowerCase == <<"a", "b", "c", "d", "e", "f", "g", "h", "i", "j", "k", "l", "m",
               "n", "o", "p", "q", "r", "s", "t", "u", "v", "w", "x", "y", "z">>

Digits == <<"0", "1", "2", "3", "4", "5", "6", "7", "8", "9">>

ToLowerChar(c) ==
    IF \E i \in DOMAIN UpperCase : UpperCase[i] = c
    THEN LowerCase[CHOOSE i \in DOMAIN UpperCase : UpperCase[i] = c]
    ELSE c

\* String.prototype.toLowerCase
ToLowerCase(str) == [i \in DOMAIN str |-> ToLowerChar(str[i])]

\* String.prototype.startsWith
StartsWith(str, prefix) ==
    Len(str) >= Len(prefix) /\ SubSeq(str, 1, Len(prefix)) = prefix

EndsWith(str, suffix) ==
    Len(str) >= Len(suffix)
        /\ SubSeq(str, Len(str) - Len(suffix) + 1, Len(str)) = suffix

\* String.prototype.lastIndexOf, counted from 1; 0 when c does not occur
LastIndexOf(str, c) ==
    IF \E i \in DOMAIN str : str[i] = c
    THEN CHOOSE i \in DOMAIN str : str[i] = c /\ \A j \in (i + 1)..Len(str) : str[j] # c
    ELSE 0

\* the part of a path after its last separator
LastComponent(path) == SubSeq(path, LastIndexOf(path, "/") + 1, Len(path))

\* path.extname: from the last dot of the last component to its end; empty
\* when there is no dot or the dot is the component's first character
ExtName(path) ==
    LET c == LastComponent(path)
        dot == LastIndexOf(c, ".")
    IN IF dot <= 1 THEN <<>> ELSE SubSeq(c, dot, Len(c))

\* path.basename(path, ext): the last component, without ext when it ends
\* with exactly (case and all) ext
BaseName(path, ext) ==
    LET c == LastComponent(path)
    IN IF ext # <<>> /\ EndsWith(c, ext)
       THEN SubSeq(c, 1, Len(c) - Len(ext))
       ELSE c

\* /^\d+$/.test(str)
AllDigits(str) ==
    str # <<>> /\ \A i \in DOMAIN str : \E d \in DOMAIN Digits : Digits[d] = str[i]

ROM_EXTENSIONS == {
    <<".", "n", "e", "s">>, <<".", "f", "d", "s">>, <<".", "u", "n", "f">>,
     <<".", "u", "n", "i", "f">>, <<".", "s", "f", "c">>,
     <<".", "s", "m", "c">>, <<".", "g", "b">>, <<".", "g", "b", "c">>,
     <<".", "g", "b", "a">>, <<".", "m", "d">>, <<".", "g", "e", "n">>,
     <<".", "s", "m", "d">>, <<".", "b", "i", "n">>, <<".", "s", "m", "s">>,
     <<".", "g", "g">>, <<".", "s", "g">>, <<".", "a", "2", "6">>,
     <<".", "a", "5", "2">>, <<".", "a", "7", "8">>, <<".", "x", "e", "x">>,
     <<".", "a", "t", "r">>, <<".", "a", "t", "x">>, <<".", "b", "a", "s">>,
     <<".", "c", "a", "r">>, <<".", "x", "f", "d">>, <<".", "l", "n", "x">>,
     <<".", "o">>, <<".", "p", "c", "e">>, <<".", "c", "u", "e">>,
     <<".", "c", "c", "d">>, <<".", "c", "h", "d">>, <<".", "n", "g", "p">>,
     <<".", "n", "g", "c">>, <<".", "w", "s">>, <<".", "w", "s", "c">>,
     <<".", "c", "o", "l">>, <<".", "v", "e", "c">>, <<".", "t", "z", "x">>,
     <<".", "z", "8", "0">>, <<".", "s", "n", "a">>, <<".", "m", "x", "1">>,
     <<".", "m", "x", "2">>, <<".", "r", "o", "m">>, <<".", "d", "s", "k">>,
     <<".", "c", "a", "s">>, <<".", "i", "s", "o">>, <<".", "p", "b", "p">>,
     <<".", "m", "3", "u">>}

ZipExt == <<".", "z", "i", "p">>

\* SYSTEM_NAMES, as the sequence of its  extension: name  pairs
SYSTEM_NAMES == <<
    <<<<".", "n", "e", "s">>, <<"N", "E", "S">>>>,
     <<<<".", "f", "d", "s">>, <<"N", "E", "S">>>>,
     <<<<".", "u", "n", "f">>, <<"N", "E", "S">>>>,
     <<<<".", "u", "n", "i", "f">>, <<"N", "E", "S">>>>,
     <<<<".", "s", "f", "c">>, <<"S", "N", "E", "S">>>>,
     <<<<".", "s", "m", "c">>, <<"S", "N", "E", "S">>>>,
     <<<<".", "g", "b">>, <<"G", "a", "m", "e", " ", "B", "o", "y">>>>,
     <<<<".", "g", "b", "c">>, <<"G", "a", "m", "e", " ", "B", "o", "y", " ", "C", "o", "l", "o", "r">>>>,
     <<<<".", "g", "b", "a">>, <<"G", "a", "m", "e", " ", "B", "o", "y", " ", "A", "d", "v", "a", "n", "c", "e">>>>,
     <<<<".", "m", "d">>, <<"G", "e", "n", "e", "s", "i", "s">>>>,
     <<<<".", "g", "e", "n">>, <<"G", "e", "n", "e", "s", "i", "s">>>>,
     <<<<".", "s", "m", "d">>, <<"G", "e", "n", "e", "s", "i", "s">>>>,
     <<<<".", "b", "i", "n">>, <<"G", "e", "n", "e", "s", "i", "s">>>>,
     <<<<".", "s", "m", "s">>, <<"M", "a", "s", "t", "e", "r", " ", "S", "y", "s", "t", "e", "m">>>>,
     <<<<".", "g", "g">>, <<"G", "a", "m", "e", " ", "G", "e", "a", "r">>>>,
     <<<<".", "s", "g">>, <<"S", "G", "-", "1", "0", "0", "0">>>>,
     <<<<".", "a", "2", "6">>, <<"A", "t", "a", "r", "i", " ", "2", "6", "0", "0">>>>,
     <<<<".", "a", "5", "2">>, <<"A", "t", "a", "r", "i", " ", "5", "2", "0", "0">>>>,
     <<<<".", "a", "7", "8">>, <<"A", "t", "a", "r", "i", " ", "7", "8", "0", "0">>>>,
     <<<<".", "x", "e", "x">>, <<"A", "t", "a", "r", "i", " ", "8", "0", "0">>>>,
     <<<<".", "a", "t", "r">>, <<"A", "t", "a", "r", "i", " ", "8", "0", "0">>>>,
     <<<<".", "a", "t", "x">>, <<"A", "t", "a", "r", "i", " ", "8", "0", "0">>>>,
     <<<<".", "b", "a", "s">>, <<"A", "t", "a", "r", "i", " ", "8", "0", "0">>>>,
     <<<<".", "c", "a", "r">>, <<"A", "t", "a", "r", "i", " ", "8", "0", "0">>>>,
     <<<<".", "x", "f", "d">>, <<"A", "t", "a", "r", "i", " ", "8", "0", "0">>>>,
     <<<<".", "l", "n", "x">>, <<"L", "y", "n", "x">>>>,
     <<<<".", "o">>, <<"L", "y", "n", "x">>>>,
     <<<<".", "p", "c", "e">>, <<"P", "C", " ", "E", "n", "g", "i", "n", "e">>>>,
     <<<<".", "c", "u", "e">>, <<"P", "C", " ", "E", "n", "g", "i", "n", "e">>>>,
     <<<<".", "c", "c", "d">>, <<"P", "C", " ", "E", "n", "g", "i", "n", "e">>>>,
     <<<<".", "c", "h", "d">>, <<"P", "C", " ", "E", "n", "g", "i", "n", "e">>>>,
     <<<<".", "n", "g", "p">>, <<"N", "e", "o", " ", "G", "e", "o", " ", "P", "o", "c", "k", "e", "t">>>>,
     <<<<".", "n", "g", "c">>, <<"N", "e", "o", " ", "G", "e", "o", " ", "P", "o", "c", "k", "e", "t", " ", "C", "o", "l", "o", "r">>>>,
     <<<<".", "w", "s">>, <<"W", "o", "n", "d", "e", "r", "S", "w", "a", "n">>>>,
     <<<<".", "w", "s", "c">>, <<"W", "o", "n", "d", "e", "r", "S", "w", "a", "n", " ", "C", "o", "l", "o", "r">>>>,
     <<<<".", "c", "o", "l">>, <<"C", "o", "l", "e", "c", "o", "V", "i", "s", "i", "o", "n">>>>,
     <<<<".", "v", "e", "c">>, <<"V", "e", "c", "t", "r", "e", "x">>>>,
     <<<<".", "t", "z", "x">>, <<"Z", "X", " ", "S", "p", "e", "c", "t", "r", "u", "m">>>>,
     <<<<".", "z", "8", "0">>, <<"Z", "X", " ", "S", "p", "e", "c", "t", "r", "u", "m">>>>,
     <<<<".", "s", "n", "a">>, <<"Z", "X", " ", "S", "p", "e", "c", "t", "r", "u", "m">>>>,
     <<<<".", "m", "x", "1">>, <<"M", "S", "X">>>>,
     <<<<".", "m", "x", "2">>, <<"M", "S", "X">>>>,
     <<<<".", "r", "o", "m">>, <<"M", "S", "X">>>>,
     <<<<".", "d", "s", "k">>, <<"M", "S", "X">>>>,
     <<<<".", "c", "a", "s">>, <<"M", "S", "X">>>>,
     <<<<".", "i", "s", "o">>, <<"P", "l", "a", "y", "S", "t", "a", "t", "i", "o", "n">>>>,
     <<<<".", "p", "b", "p">>, <<"P", "l", "a", "y", "S", "t", "a", "t", "i", "o", "n">>>>,
     <<<<".", "m", "3", "u">>, <<"P", "l", "a", "y", "S", "t", "a", "t", "i", "o", "n">>>>,
     <<<<".", "z", "i", "p">>, <<"A", "r", "c", "h", "i", "v", "e">>>>>>

Unknown == <<"U", "n", "k", "n", "o", "w", "n">>

\* SYSTEM_NAMES[ext] || 'Unknown'
SystemName(ext) ==
    IF \E i \in DOMAIN SYSTEM_NAMES : SYSTEM_NAMES[i][1] = ext
    THEN SYSTEM_NAMES[CHOOSE i \in DOMAIN SYSTEM_NAMES : SYSTEM_NAMES[i][1] = ext][2]
    ELSE Unknown

\* the order of UTF-16 code units among the characters that occur
CodeUnits == <<" ", "-", ".", "/">> \o Digits \o UpperCase \o <<"_">> \o LowerCase

\* the collation order of localeCompare among the characters that occur, a
\* letter standing for both its cases
Collation == <<" ", "_", "-", ".", "/">> \o Digits \o LowerCase

Position(order, c) == CHOOSE i \in DOMAIN order : order[i] = c

\* a < b as the default comparison of Array.prototype.sort has it
RECURSIVE CodeUnitLess(_, _)
CodeUnitLess(a, b) ==
    IF b = <<>> THEN FALSE
    ELSE IF a = <<>> THEN TRUE
    ELSE IF Head(a) = Head(b) THEN CodeUnitLess(Tail(a), Tail(b))
    ELSE Position(CodeUnits, Head(a)) < Position(CodeUnits, Head(b))

\* a before b with the letters' cases set aside
RECURSIVE PrimaryLess(_, _)
PrimaryLess(a, b) ==
    IF b = <<>> THEN FALSE
    ELSE IF a = <<>> THEN TRUE
    ELSE IF ToLowerChar(Head(a)) = ToLowerChar(Head(b)) THEN PrimaryLess(Tail(a), Tail(b))
    ELSE Position(Collation, ToLowerChar(Head(a))) < Position(Collation, ToLowerChar(Head(b)))

\* of two strings that differ in case only, the one with the lower-case letter
\* at the first difference comes first
RECURSIVE CaseLess(_, _)
CaseLess(a, b) ==
    IF a = <<>> \/ b = <<>> THEN FALSE
    ELSE IF Head(a) = Head(b) THEN CaseLess(Tail(a), Tail(b))
    ELSE ToLowerChar(Head(a)) = Head(a)

\* a.localeCompare(b) < 0
LocaleLess(a, b) ==
    \/ PrimaryLess(a, b)
    \/ ~PrimaryLess(b, a) /\ a # b /\ CaseLess(a, b)

RECURSIVE InsertRom(_, _)
InsertRom(sorted, rom) ==
    IF sorted = <<>> THEN <<rom>>
    ELSE IF LocaleLess(rom.name, Head(sorted).name) THEN <<rom>> \o sorted
    ELSE <<Head(sorted)>> \o InsertRom(Tail(sorted), rom)

\* roms.sort((a, b) => a.name.localeCompare(b.name)): a stable sort
RECURSIVE SortRoms(_)
SortRoms(roms) ==
    IF roms = <<>> THEN <<>>
    ELSE InsertRom(SortRoms(SubSeq(roms, 1, Len(roms) - 1)), roms[Len(roms)])

\* an entry pushed by _scanDir has no zipEntry
NoZipEntry == <<>>

Rom(name, path, zipEntry, ext) ==
    [name |-> name, path |-> path, zipEntry |-> zipEntry, ext |-> ext,
     system |-> SystemName(ext)]

\* what a part of the scan has pushed, and whether the scan still runs to its
\* return
Found(roms) == [roms |-> roms, returns |-> TRUE]

NotReturning == [roms |-> <<>>, returns |-> FALSE]

MacOsxPrefix == <<"_", "_", "M", "A", "C", "O", "S", "X">>

\* the 'entry' handler of _scanZip
ZipEntry(zipPath, zipName, fileName) ==
    LET ext == ToLowerCase(ExtName(fileName))
        romName == BaseName(fileName, ext)
    IN IF ext \in ROM_EXTENSIONS /\ ~StartsWith(fileName, MacOsxPrefix)
       THEN <<Rom(IF AllDigits(romName) \/ Len(romName) < 3 THEN zipName ELSE romName,
                  zipPath, fileName, ext)>>
       ELSE <<>>

RECURSIVE ZipEntries(_, _, _)
ZipEntries(zipPath, zipName, members) ==
    IF members = <<>> THEN <<>>
    ELSE ZipEntry(zipPath, zipName, Head(members))
            \o ZipEntries(zipPath, zipName, Tail(members))

\* _scanZip.  An archive that cannot be opened is caught and gives no entry.
\* An archive that opens and then fails while its entries are read emits
\* 'error' on the zipfile: nothing listens to it and the promise that waits
\* for 'end' has no way to reject, so the scan does not come to its return.
ScanZip(zipPath, file) ==
    LET name == zipPath[Len(zipPath)]
        zipName == BaseName(name, ExtName(name))
    IN CASE file.read = "fail" -> Found(<<>>)
         [] file.read = "broken" -> NotReturning
         [] OTHER -> Found(ZipEntries(zipPath, zipName, file.members))

Hidden(name) == StartsWith(name, <<".">>)

MaxDepth == 3

RECURSIVE ScanDir(_, _, _)
RECURSIVE ScanDirEntries(_, _, _)

\* the body of the  for (const entry of entries)  loop of _scanDir
ScanDirEntry(dir, entry, depth) ==
    LET fullPath == Append(dir, entry.name)
        ext == ToLowerCase(ExtName(entry.name))
    IN IF Hidden(entry.name) THEN Found(<<>>)
       ELSE IF ~entry.stat THEN Found(<<>>)
       ELSE IF entry.kind = "dir" THEN ScanDir(fullPath, entry, depth + 1)
       ELSE IF entry.kind = "file"
       THEN IF ext = ZipExt THEN ScanZip(fullPath, entry)
            ELSE IF ext \in ROM_EXTENSIONS
            THEN Found(<<Rom(BaseName(entry.name, ext), fullPath, NoZipEntry, ext)>>)
            ELSE Found(<<>>)
       ELSE Found(<<>>)

ScanDirEntries(dir, entries, depth) ==
    IF entries = <<>> THEN Found(<<>>)
    ELSE LET first == ScanDirEntry(dir, Head(entries), depth)
         IN IF ~first.returns THEN NotReturning
            ELSE LET rest == ScanDirEntries(dir, Tail(entries), depth)
                 IN IF ~rest.returns THEN NotReturning
                    ELSE Found(first.roms \o rest.roms)

\* mutant: _scanDir giving up one level later
ScanDirDeeper(dir, node, depth) ==
    IF depth > MaxDepth + 1 THEN Found(<<>>)
    ELSE IF node.read # "ok" THEN Found(<<>>)
    ELSE ScanDirEntries(dir, node.kids, depth)

\* _scanDir(dir, roms, depth)
ScanDir(dir, node, depth) ==
    IF depth > MaxDepth THEN Found(<<>>)
    ELSE IF node.read # "ok" THEN Found(<<>>)
    ELSE ScanDirEntries(dir, node.kids, depth)

\* RomScanner.scan() on the tree below romsDir
Scan(tree) ==
    LET found == ScanDir(<<tree.name>>, tree, 0)
    IN IF found.returns THEN Found(SortRoms(found.roms)) ELSE NotReturning

\* the nodes of a tree: what readdirSync, statSync and yauzl report of them
FileNode(name) ==
    [kind |-> "file", name |-> name, stat |-> TRUE, read |-> "ok",
     kids |-> <<>>, members |-> <<>>]

\* a directory entry that is neither a file nor a directory
OtherNode(name) == [FileNode(name) EXCEPT !.kind = "other"]

\* an entry whose statSync throws
NoStat(node) == [node EXCEPT !.stat = FALSE]

ZipNode(name, read, members) ==
    [FileNode(name) EXCEPT !.read = read, !.members = members]

DirNode(name, read, kids) ==
    [kind |-> "dir", name |-> name, stat |-> TRUE, read |-> read,
     kids |-> kids, members |-> <<>>]

----------------------------------------------------------------------------
(* The trees that are scanned *)

MarioNes == <<"m", "a", "r", "i", "o", ".", "n", "e", "s">>

ZeldaNES == <<"Z", "e", "l", "d", "a", ".", "N", "E", "S">>

HiddenGb == <<".", "h", "i", "d", ".", "g", "b">>

NotesTxt == <<"n", "o", "t", "e", "s", ".", "t", "x", "t">>

LostSfc == <<"l", "o", "s", "t", ".", "s", "f", "c">>

PipeNes == <<"p", "i", "p", "e", ".", "n", "e", "s">>

AlexSms == <<"a", "l", "e", "x", ".", "s", "m", "s">>

XakRom == <<"x", "a", "k", ".", "r", "o", "m">>

GamesZip == <<"g", "a", "m", "e", "s", ".", "z", "i", "p">>

\* the file of the root directory, if any
RootFiles ==
    {<<>>, <<FileNode(MarioNes)>>, <<FileNode(ZeldaNES)>>, <<FileNode(HiddenGb)>>,
     <<FileNode(NotesTxt)>>, <<NoStat(FileNode(LostSfc))>>, <<OtherNode(PipeNes)>>,
     <<FileNode(AlexSms)>>}

\* the archive of the root directory, if any
RootZips ==
    {<<>>,
     <<ZipNode(GamesZip, "ok", <<<<"1", ".", "n", "e", "s">>, <<"2", ".", "n", "e", "s">>>>)>>,
     <<ZipNode(GamesZip, "ok", <<<<"7", ".", "N", "E", "S">>, <<"a", "b", ".", "g", "b">>, <<"s", "u", "b", "/", "s", "o", "n", "i", "c", ".", "m", "d">>>>)>>,
     <<ZipNode(GamesZip, "ok", <<<<".", "d", "o", "t", ".", "n", "e", "s">>, <<"_", "_", "M", "A", "C", "O", "S", "X", "/", "x", ".", "n", "e", "s">>, <<"r", "e", "a", "d", "m", "e", ".", "t", "x", "t">>>>)>>,
     <<ZipNode(GamesZip, "fail", <<<<"1", ".", "n", "e", "s">>>>)>>,
     <<ZipNode(GamesZip, "broken", <<<<"1", ".", "n", "e", "s">>>>)>>}

\* a directory beside the chain, if any: hidden, unreadable, or without stat
SideDirs ==
    {<<>>,
     <<DirNode(<<".", "g", "i", "t">>, "ok", <<FileNode(MarioNes)>>)>>,
     <<DirNode(<<"l", "o", "c", "k", "e", "d">>, "fail", <<FileNode(MarioNes)>>)>>,
     <<NoStat(DirNode(<<"g", "o", "n", "e">>, "ok", <<FileNode(MarioNes)>>))>>}

ChainFiles == {FileNode(MarioNes), FileNode(XakRom)}

\* how far below the root the chain of directories reaches
MaxChain == 5

ChainName(level) == <<"d", Digits[level + 1]>>

\* directories d1/d2/.../d<levels>, the last one holding the file
RECURSIVE Chain(_, _, _)
Chain(level, levels, file) ==
    DirNode(ChainName(level), "ok",
            IF level = levels THEN <<file>> ELSE <<Chain(level + 1, levels, file)>>)

Root == <<"r", "o", "m", "s">>

Trees ==
    {DirNode(Root, "ok", f \o z \o d \o <<Chain(1, levels, c)>>) :
        f \in RootFiles, z \in RootZips, d \in SideDirs,
        levels \in 1..MaxChain, c \in ChainFiles}

\* this.systemRoms and this.systems of _groupRomsBySystem, on catalog entries
RECURSIVE InsertSystem(_, _)
InsertSystem(sorted, system) ==
    IF sorted = <<>> THEN <<system>>
    ELSE IF CodeUnitLess(system, Head(sorted)) THEN <<system>> \o sorted
    ELSE <<Head(sorted)>> \o InsertSystem(Tail(sorted), system)

\* Object.keys(this.systemRoms).sort(), the keys in the order of insertion
RECURSIVE SortKeys(_)
SortKeys(keys) ==
    IF keys = <<>> THEN <<>>
    ELSE InsertSystem(SortKeys(SubSeq(keys, 1, Len(keys) - 1)), keys[Len(keys)])

\* the systems in the order in which the loop first meets them
RECURSIVE KeysOf(_)
KeysOf(roms) ==
    IF roms = <<>> THEN <<>>
    ELSE LET before == KeysOf(SubSeq(roms, 1, Len(roms) - 1))
             system == roms[Len(roms)].system
         IN IF \E i \in DOMAIN before : before[i] = system THEN before
            ELSE Append(before, system)

GroupEntriesBySystem(roms) ==
    LET systems == SortKeys(KeysOf(roms))
    IN [systems |-> systems,
        systemRoms |-> [i \in DOMAIN systems |->
                          SortRoms(SelectSeq(roms, LAMBDA r : r.system = systems[i]))]]

----------------------------------------------------------------------------
(* The scanner at work *)

InitScan ==
    /\ launcher = NewLauncher("/three")
    /\ now = PollPeriod
    /\ gamepad = NoPad
    /\ obs = InitObs
    /\ \E tree \in Trees : scanner = [NoScanner EXCEPT !.tree = tree, !.status = "new"]

\* this.roms = await scanner.scan(): the scan returns its catalog, or does not
\* return (the process ends on the unhandled 'error', or the promise stays
\* pending)
ScanTree ==
    /\ scanner.status = "new"
    /\ LET result == Scan(scanner.tree)
       IN IF result.returns
          THEN scanner' = [scanner EXCEPT !.roms = result.roms, !.status = "scanned"]
          ELSE \E end \in {"crash", "pending"} : scanner' = [scanner EXCEPT !.status = end]
    /\ UNCHANGED <<launcher, now, gamepad, obs>>

\* the continuation of _loadRoms: an empty catalog is reported, any other is
\* grouped
GroupTree ==
    /\ scanner.status = "scanned"
    /\ IF Len(scanner.roms) = 0
       THEN scanner' = [scanner EXCEPT !.status = "empty"]
       ELSE LET groups == GroupEntriesBySystem(scanner.roms)
            IN scanner' = [scanner EXCEPT !.systems = groups.systems,
                                          !.systemRoms = groups.systemRoms,
                                          !.status = "grouped"]
    /\ UNCHANGED <<launcher, now, gamepad, obs>>

NextScan ==
    \/ ScanTree
    \/ GroupTree

SpecScan == InitScan /\ [][NextScan]_vars

----------------------------------------------------------------------------
(* C23..C28: the catalog against the tree *)

\* every entry of a tree that is not a directory, with its path
RECURSIVE FilesBelow(_, _)
FilesBelow(dir, node) ==
    UNION {IF k.kind = "dir"
           THEN FilesBelow(Append(dir, k.name), k)
           ELSE {[path |-> Append(dir, k.name), node |-> k]} : k \in Range(node.kids)}

TreeFiles == FilesBelow(<<scanner.tree.name>>, scanner.tree)

\* the number of directory components between the root and a file
DirLevels(path) == Len(path) - 2

\* the scan of the tree is over, with or without a catalog
ScanOver == scanner.status \notin {"idle", "new"}

InSystemTable(ext) == \E i \in DOMAIN SYSTEM_NAMES : SYSTEM_NAMES[i][1] = ext

EntriesAt(path) == {i \in DOMAIN scanner.roms : scanner.roms[i].path = path}

\* C23: when no file of the tree lies more than 3 directory levels below the
\* root, every file whose extension is in the system table appears in the
\* scanned catalog exactly once, with the system the table gives its extension.
C23_EveryRomOnce ==
    (ScanOver /\ \A f \in TreeFiles : DirLevels(f.path) <= MaxDepth) =>
        \A f \in TreeFiles :
            LET ext == ToLowerCase(ExtName(f.node.name))
            IN InSystemTable(ext) =>
                  /\ Cardinality(EntriesAt(f.path)) = 1
                  /\ \A i \in EntriesAt(f.path) : scanner.roms[i].system = SystemName(ext)

\* C24: no catalog entry comes from a file more than 3 directory levels below
\* the scan root: every entry's path has at most 3 directory components
\* between the root and the file, and a deeper file has no entry.
C24_DepthLimit ==
    ScanOver =>
        /\ \A i \in DOMAIN scanner.roms : DirLevels(scanner.roms[i].path) <= MaxDepth
        /\ \A f \in TreeFiles : DirLevels(f.path) > MaxDepth => EntriesAt(f.path) = {}

\* C24 witness: a scan has returned a catalog that holds the file of the root,
\* while a ROM file lies 4 levels below the root.
C24_Witness ==
    /\ scanner.status = "scanned"
    /\ \E i \in DOMAIN scanner.roms : DirLevels(scanner.roms[i].path) = 0
    /\ \E f \in TreeFiles :
          /\ DirLevels(f.path) = MaxDepth + 1
          /\ ToLowerCase(ExtName(f.node.name)) \in ROM_EXTENSIONS

\* the archives of the tree, with their paths
TreeZips == {f \in TreeFiles : ToLowerCase(ExtName(f.node.name)) = ZipExt}

\* the name of a member without its directories and without its extension,
\* whatever the case of the extension
MemberBase(fileName) ==
    LET c == LastComponent(fileName)
    IN SubSeq(c, 1, Len(c) - Len(ExtName(fileName)))

EntriesOf(path, fileName) ==
    {i \in DOMAIN scanner.roms :
        scanner.roms[i].path = path /\ scanner.roms[i].zipEntry = fileName}

\* C25: an entry that comes from an archive member has the archive's path as
\* its path and the member's name as its archive-member field; its name is the
\* archive's base filename when the member's base name (without extension) is
\* all digits or shorter than 3 characters, and the member's own base name
\* otherwise.
C25_ArchiveMemberNames ==
    ScanOver =>
        \A z \in TreeZips : \A m \in Range(z.node.members) : \A i \in EntriesOf(z.path, m) :
            LET base == MemberBase(m)
                zipName == MemberBase(z.node.name)
            IN scanner.roms[i].name =
                  IF AllDigits(base) \/ Len(base) < 3 THEN zipName ELSE base

\* a member name one of whose components begins with a dot
HiddenMember(fileName) ==
    \/ Hidden(fileName)
    \/ \E i \in 1..(Len(fileName) - 1) : fileName[i] = "/" /\ fileName[i + 1] = "."

\* C26: no catalog entry comes from a hidden entry: no component of an entry's
\* path below the scan root begins with a dot, and no entry comes from an
\* archive member whose name begins with a dot.
C26_NoHiddenEntries ==
    ScanOver =>
        \A i \in DOMAIN scanner.roms :
            /\ \A k \in 2..Len(scanner.roms[i].path) : ~Hidden(scanner.roms[i].path[k])
            /\ ~HiddenMember(scanner.roms[i].zipEntry)

\* a does not come after b when the letters' cases are set aside
AlphabeticalLeq(a, b) == ~CodeUnitLess(ToLowerCase(b), ToLowerCase(a))

OrderedByName(roms) ==
    \A i \in 1..(Len(roms) - 1) : AlphabeticalLeq(roms[i].name, roms[i + 1].name)

FlatCatalogOrdered ==
    scanner.status \in {"scanned", "empty", "grouped"} => OrderedByName(scanner.roms)

GroupsOrdered ==
    scanner.status = "grouped" =>
        \A g \in DOMAIN scanner.systemRoms : OrderedByName(scanner.systemRoms[g])

EachEntryInItsGroup ==
    scanner.status = "grouped" =>
        /\ \A g \in DOMAIN scanner.systemRoms : \A i \in DOMAIN scanner.systemRoms[g] :
              /\ scanner.systemRoms[g][i].system = scanner.systems[g]
              /\ scanner.systemRoms[g][i] \in Range(scanner.roms)
        /\ \A g, h \in DOMAIN scanner.systems :
              scanner.systems[g] = scanner.systems[h] => g = h
        /\ Len(scanner.roms) =
              Cardinality({p \in (DOMAIN scanner.systemRoms) \X (1..Len(scanner.roms)) :
                              p[2] \in DOMAIN scanner.systemRoms[p[1]]})
        /\ \A i \in DOMAIN scanner.roms :
              \E g \in DOMAIN scanner.systems :
                  /\ scanner.systems[g] = scanner.roms[i].system
                  /\ scanner.roms[i] \in Range(scanner.systemRoms[g])

SystemsAlphabetical ==
    scanner.status = "grouped" =>
        \A g \in 1..(Len(scanner.systems) - 1) :
            AlphabeticalLeq(scanner.systems[g], scanner.systems[g + 1])

\* C27: after every scan the flat catalog is ordered by case-insensitive name;
\* after grouping every group is ordered by case-insensitive name, the system
\* identifiers are in alphabetical order, and every catalog entry is in exactly
\* one group, the one keyed by its system.
C27_SortedCatalog ==
    /\ FlatCatalogOrdered
    /\ GroupsOrdered
    /\ SystemsAlphabetical
    /\ EachEntryInItsGroup

\* the regular files that can be reached from a directory through visible,
\* readable directories no more than MaxDepth levels down, and can be stat'ed
RECURSIVE ReadableBelow(_, _)
ReadableBelow(dir, node) ==
    IF node.read # "ok" \/ Len(dir) - 1 > MaxDepth THEN {}
    ELSE UNION {IF Hidden(k.name) \/ ~k.stat THEN {}
                ELSE IF k.kind = "dir" THEN ReadableBelow(Append(dir, k.name), k)
                ELSE IF k.kind = "file" THEN {[path |-> Append(dir, k.name), node |-> k]}
                ELSE {} : k \in Range(node.kids)}

ReadableFiles == ReadableBelow(<<scanner.tree.name>>, scanner.tree)

\* C28: scan never throws: it returns a catalog whatever fails on the way; an
\* item that fails (an unreadable directory, a file whose stat fails, an
\* archive that cannot be opened or read) contributes no entry, and every
\* other readable ROM file and every ROM member of a readable archive is in
\* the catalog.
C28_ScanNeverThrows ==
    ScanOver =>
        /\ scanner.status \in {"scanned", "empty", "grouped"}
        /\ \A f \in TreeFiles :
              (~f.node.stat \/ f.node.read # "ok") => EntriesAt(f.path) = {}
        /\ \A f \in ReadableFiles :
              LET ext == ToLowerCase(ExtName(f.node.name))
              IN /\ ext \in ROM_EXTENSIONS => EntriesAt(f.path) # {}
                 /\ (ext = ZipExt /\ f.node.read = "ok") =>
                       \A m \in Range(f.node.members) :
                           (/\ ToLowerCase(ExtName(m)) \in ROM_EXTENSIONS
                            /\ ~StartsWith(m, MacOsxPrefix))
                              => EntriesOf(f.path, m) # {}

----------------------------------------------------------------------------
(* C29: the hold timer after a release *)

\* C29: when the poll before has seen a slot's signal released, whatever mode
\* that poll was in, the slot's next activation in browsing mode issues one
\* command on its first active tick and starts the hold timer at that tick,
\* so that the first repeat waits the full 300 ms.
C29_ReleaseResetsHold ==
    [][\A k \in Slots :
          (/\ obs'.step = "tick"
           /\ obs'.mode = "browse"
           /\ gamepad.connected
           /\ ~SlotActive(gamepad, k)
           /\ SlotActive(gamepad', k))
             => /\ CountSlot(launcher', k) = 1
                /\ launcher'.holdTime[k] = now'
      ]_vars

----------------------------------------------------------------------------
(* C30: the launcher while the emulator runs *)

\* C30: from the spawn of a child to its termination the launcher is
\* suspended: its screen is destroyed and no poll timer of it is active; it is
\* initialized again only by the restart that follows a child's termination,
\* when no child is left running.
C30_SuspendedWhileChildRuns ==
    [][/\ launcher'.children > 0 =>
             (launcher'.intervals = 0 /\ launcher'.screen = "destroyed")
       /\ obs'.step = "restart" => launcher.children = 0
      ]_vars

----------------------------------------------------------------------------
(* C31: d-pad and stick *)

MaxTicksAxis == 4

\* a sample with the left stick at <<ax, ay>>, in tenths
PadAt(bs, ax, ay) == [Pad(bs) EXCEPT !.ax = ax, !.ay = ay]

AxisSamples ==
    {PadAt(bs, 0, ay) : bs \in {{}, {DpadDown}}, ay \in {0, AxisThreshold, AxisThreshold + 1}}
        \cup {PadAt({}, 0, 0 - AxisThreshold), PadAt({}, 0, 0 - AxisThreshold - 1),
              PadAt({}, AxisThreshold, 0), PadAt({}, AxisThreshold + 1, 0),
              PadAt({DpadRight}, 0, 0)}

InitAxis == InitIn({"/three"}, 0)

TickAxis == PollTick(AxisSamples, MaxTicksAxis)

NextAxis ==
    \/ Start
    \/ TickAxis
    \/ ScanComplete

SpecAxis == InitAxis /\ [][NextAxis]_vars

DirectionSlots == {"up", "down", "left", "right"}

DirectionButton(k) ==
    CASE k = "up" -> DpadUp [] k = "down" -> DpadDown [] k = "left" -> DpadLeft
      [] OTHER -> DpadRight

\* the stick is beyond 0.5 in the direction of the slot
StickBeyond(snap, k) ==
    CASE k = "up" -> snap.ay < 0 - AxisThreshold
      [] k = "down" -> snap.ay > AxisThreshold
      [] k = "left" -> snap.ax < 0 - AxisThreshold
      [] OTHER -> snap.ax > AxisThreshold

DirectionActive(snap, k) == DirectionButton(k) \in snap.buttons \/ StickBeyond(snap, k)

\* C31: on a browsing tick a direction's hold runs iff its d-pad button is
\* pressed or the stick is beyond 0.5 in that direction (at exactly 0.5 it is
\* not, and the direction issues nothing); while the direction stays active
\* from one browsing tick to the next, by whichever of the two sources, the
\* hold timer is not restarted and no new first command is issued.
C31_DirectionSignal ==
    [][(obs'.step = "tick" /\ obs'.mode = "browse") =>
          \A k \in DirectionSlots :
              /\ launcher'.holdTime[k] # 0 <=> DirectionActive(gamepad', k)
              /\ ~DirectionActive(gamepad', k) => CountSlot(launcher', k) = 0
              /\ (/\ obs.step = "tick"
                  /\ obs.mode = "browse"
                  /\ DirectionActive(gamepad, k)
                  /\ DirectionActive(gamepad', k))
                    => /\ launcher'.holdTime[k] = launcher.holdTime[k]
                       /\ now' - launcher.holdTime[k] <= InitialDelay
                             => CountSlot(launcher', k) = 0
      ]_vars

\* C31 witness: down was held on the d-pad, then on the stick alone with no
\* inactive tick between: the hold started with the d-pad still runs and the
\* tick has issued nothing.
C31_Witness ==
    /\ obs.step = "tick"
    /\ obs.mode = "browse"
    /\ DpadDown \in obs.lastButtons
    /\ DpadDown \notin gamepad.buttons
    /\ gamepad.ay > AxisThreshold
    /\ launcher.holdTime["down"] = now - PollPeriod
    /\ launcher.cmds = <<>>

----------------------------------------------------------------------------
(* C32: previous / next system outside the system view *)

MaxTicksSystems == 2

MaxKeysSystems == 3

SystemsKeys == {"left", "right", "r", "a"}

SystemsSamples == {Pad({}), Pad({DpadLeft}), Pad({DpadRight}), Pad({DpadLeft, DpadRight})}

\* a catalog of three systems or a directory without ROMs; a recent list that
\* is empty or holds one ROM of the catalog
InitSystems ==
    /\ \E recent \in {<<>>, <<101>>}, dir \in {"/three", "/empty"} :
         launcher = [NewLauncher(dir) EXCEPT
                        !.prefs = LoadedConfig(dir, recent, DefaultMaxRecent)]
    /\ now = PollPeriod
    /\ gamepad = NoPad
    /\ scanner = NoScanner
    /\ obs = [InitObs EXCEPT !.counting = 1]

TickSystems == PollTick(SystemsSamples, MaxTicksSystems)

KeySystems == KeyPress(SystemsKeys, MaxKeysSystems)

NextSystems ==
    \/ Start
    \/ TickSystems
    \/ KeySystems
    \/ ScanComplete

SpecSystems == InitSystems /\ [][NextSystems]_vars

\* the commands that call _navigatePrevSystem or _navigateNextSystem
SystemCommands ==
    {Cmd("key", 0 - 1, "prevSystem"), Cmd("key", 0 - 1, "nextSystem"),
     Cmd("slot", 0 - 1, "left"), Cmd("slot", 0 - 1, "right")}

OnlySystemCommands(s) == s.cmds # <<>> /\ Range(s.cmds) \subseteq SystemCommands

\* C32: a step whose commands are only previous-system / next-system, taken
\* in the recent view or with no systems, leaves the view mode, the system
\* index, the displayed list and the highlight as they were.
C32_SystemNavNoOp ==
    [][(/\ OnlySystemCommands(launcher')
        /\ launcher.currentView = "recent" \/ Len(launcher.systems) = 0)
          => /\ launcher'.currentView = launcher.currentView
             /\ launcher'.currentSystemIndex = launcher.currentSystemIndex
             /\ launcher'.sortedRoms = launcher.sortedRoms
             /\ launcher'.romList = launcher.romList
      ]_vars

\* C32 witness: the recent view shows a ROM, the catalog has three systems,
\* and next-system has just been asked for.
C32_Witness ==
    /\ launcher.cmds = <<Cmd("key", 0 - 1, "nextSystem")>>
    /\ launcher.currentView = "recent"
    /\ Len(launcher.systems) = 3
    /\ launcher.romList.kind = "recent"

----------------------------------------------------------------------------
(* C33: one child at a time *)

\* C33: at most one emulator child runs at any time, and no step (poll tick
\* or key event) spawns more than one child.
C33_AtMostOneChild ==
    /\ launcher.children <= 1
    /\ Cardinality(Launches(launcher)) <= 1

----------------------------------------------------------------------------
(* C34: the dialog and the child *)

\* C34: the settings dialog is never open while an emulator child runs, and
\* the launcher is never up with the settings-open flag set and no dialog on
\* its screen.
C34_NoDialogWithChild ==
    /\ launcher.children > 0 => ~launcher.settingsOpen
    /\ (launcher.screen = "up" /\ launcher.settingsOpen) => launcher.settingsState.attached

----------------------------------------------------------------------------
(* C35: overlapping scans *)

\* the catalog of the configured directory
CurrentCatalog(s) == IF DirExists(s.prefs.romsDir) THEN ScanResult(s.prefs.romsDir) ELSE <<>>

\* C35: once no scan is in flight, the catalog of the launcher is that of the
\* directory now configured (the most recently requested scan), and the list
\* on the screen is not that of another directory.
C35_LastRequestWins ==
    (launcher.started > 0 /\ launcher.screen = "up" /\ launcher.scans = <<>>)
        => /\ launcher.roms = CurrentCatalog(launcher)
           /\ Range(launcher.romList.shown) \subseteq Range(CurrentCatalog(launcher))

----------------------------------------------------------------------------
(* C36: buttons held when the dialog closes *)

\* the last step was a poll tick that found the dialog open and closed it
TickClosedDialog == obs.step = "tick" /\ obs.mode = "dialog" /\ ~launcher.settingsOpen

\* C36: a button that was down on the tick that closed the dialog and is
\* still down on the next tick triggers no browsing command on that tick.
C36_HeldAtCloseStaysQuiet ==
    [][(TickClosedDialog /\ obs'.step = "tick" /\ obs'.mode = "browse")
          => \A b \in gamepad.buttons \cap gamepad'.buttons :
                 \A c \in Range(launcher'.cmds) : c.kind = "btn" => c.btn # b
      ]_vars

----------------------------------------------------------------------------
(* C37: termination of scan() *)

\* the trees without a side directory, the chain one level deep
FlatTrees ==
    {DirNode(Root, "ok", f \o z \o <<Chain(1, 1, FileNode(MarioNes))>>) :
        f \in RootFiles, z \in RootZips}

InitScanLive ==
    /\ launcher = NewLauncher("/three")
    /\ now = PollPeriod
    /\ gamepad = NoPad
    /\ obs = InitObs
    /\ \E tree \in FlatTrees : scanner = [NoScanner EXCEPT !.tree = tree, !.status = "new"]

\* scan() on each of these trees, computed once
ScanOutcomes == {<<tree, Scan(tree)>> : tree \in FlatTrees}

ScanOutcome(tree) == (CHOOSE p \in ScanOutcomes : p[1] = tree)[2]

\* _groupRomsBySystem on each catalog that scan() returns, computed once
GroupOutcomes ==
    {<<p[2].roms, GroupEntriesBySystem(p[2].roms)>> : p \in {q \in ScanOutcomes : q[2].returns}}

GroupOutcome(roms) == (CHOOSE p \in GroupOutcomes : p[1] = roms)[2]

\* the step of ScanTree, its result read from ScanOutcomes
ScanTreeStep ==
    /\ scanner.status = "new"
    /\ LET result == ScanOutcome(scanner.tree)
       IN IF result.returns
          THEN scanner' = [scanner EXCEPT !.roms = result.roms, !.status = "scanned"]
          ELSE \E end \in {"crash", "pending"} : scanner' = [scanner EXCEPT !.status = end]
    /\ UNCHANGED <<launcher, now, gamepad, obs>>

\* the step of GroupTree, its result read from GroupOutcomes
GroupTreeStep ==
    /\ scanner.status = "scanned"
    /\ IF Len(scanner.roms) = 0
       THEN scanner' = [scanner EXCEPT !.status = "empty"]
       ELSE LET groups == GroupOutcome(scanner.roms)
            IN scanner' = [scanner EXCEPT !.systems = groups.systems,
                                          !.systemRoms = groups.systemRoms,
                                          !.status = "grouped"]
    /\ UNCHANGED <<launcher, now, gamepad, obs>>

\* the scanner under fair scheduling: the event loop runs a scan that can
\* start and the continuation of a scan that has returned
SpecScanLive ==
    InitScanLive /\ [][NextScan]_vars /\ WF_vars(ScanTreeStep) /\ WF_vars(GroupTreeStep)

\* the promise of scan() has settled with a list of entries
ScanSettled == scanner.status \in {"scanned", "empty", "grouped"}

\* C37: for every directory tree, scan() eventually settles.
C37_ScanTerminates == <>ScanSettled

====
